---- MODULE Spec2Model ----
(***************************************************************************)
(* A model of the response-evaluation pipeline of the mathematical problem *)
(* evaluation system: ProblemEvaluator (src/src/evaluation/                *)
(* problem_evaluator.py) and MathProblemEvaluator.evaluate_problems        *)
(* (src/src/main.py).                                                      *)
(*                                                                         *)
(* A text (a Python str) is a sequence of atoms.  An atom is one character *)
(* ("3", " ", "=", ...) or one whole word written with letters only        *)
(* ("answer", "because", "we get", ...).  No word of the regular           *)
(* expressions of the program can arise across two atoms, so a regular     *)
(* expression search over the characters of the text is a search over its  *)
(* atoms.  Python's None, where a text is expected, is the value None.     *)
(***************************************************************************)
EXTENDS Naturals, Sequences, FiniteSets, TLC

VARIABLES
    pc,              \* position of the operation under way
    response,        \* the text handed to the pure functions
    correct_answer,  \* the ground truth handed to _check_correctness
    steps,           \* what _extract_steps returned
    is_correct,      \* what _check_correctness returned
    matched,         \* what _extract_answer returned
    problem,         \* the problem dict handed to evaluate_responses
    responses,       \* the responses dict, as its (name, value) items in order
    results,         \* what evaluate_responses returned
    raised,          \* whether evaluate_responses raised
    calls,           \* evaluate_responses calls made on the evaluator so far
    seen,            \* one record of a call so far: text, answer, verdict
    problems,        \* the list handed to evaluate_problems
    index,           \* index in problems of the problem being evaluated
    model_responses, \* model_responses of evaluate_problems, items in order
    model_categories,\* model_categories of evaluate_problems
    all_results,     \* results of evaluate_problems
    saved,           \* the files save_results wrote, by problem id
    failed,          \* the models whose call failed for the current problem
    sequence,        \* the step_sequence handed to _check_step_completeness
    completeness,    \* what _check_step_completeness returned
    steps_analysis,   \* what _analyze_steps returned
    analyzed,        \* the results handed to analyze, as items in order
    analysis,        \* what analyze returned
    analyze_raised,  \* whether analyze raised
    loaded,          \* self.results of the metrics analyzer, as items in order
    metrics,         \* what calculate_metrics returned
    metrics_raised,  \* whether calculate_metrics raised
    file,            \* what the results file of the metrics analyzer holds
    load_raised,     \* whether constructing the metrics analyzer raised
    data_path,       \* self.data_path of the data loader, as its atoms
    disk,            \* what the file at data_path holds
    data,            \* self.data of the data loader
    last_call,       \* the last call on the data loader and how it ended
    load_succeeded,  \* whether a load_data call has returned
    comparison_report, \* what compare_correct_and_incorrect_models returned
    env_present,     \* whether main() finds a .env file
    written          \* the files main() and save_analysis wrote, by name

textVars == <<response, correct_answer, steps, is_correct, matched>>
evalVars == <<problem, responses, results, raised, calls, seen>>
mainVars == <<problems, index, model_responses, model_categories,
              all_results, saved, failed>>
stepVars == <<sequence, completeness, steps_analysis>>
analyzerVars == <<analyzed, analysis, analyze_raised,
                  loaded, metrics, metrics_raised>>
loadVars == <<file, load_raised>>
loaderVars == <<data_path, disk, data, last_call, load_succeeded>>
reportVars == <<comparison_report>>
pipelineVars == <<env_present, written>>
ioVars == <<loadVars, loaderVars, reportVars, pipelineVars>>
vars == <<pc, textVars, evalVars, mainVars, stepVars, analyzerVars, ioVars>>

----------------------------------------------------------------------------
(* Characters and character classes of Python's re module.                 *)

None == <<"None">>

\* \d
Digits == {"0", "3", "4"}
\* \s
Spaces == {" ", "\n"}
\* [\+\-\*\/]
Operators == {"+", "-", "*", "/"}
\* [:\s]
LabelSeparators == {":"} \cup Spaces
\* [\.\n]
Terminators == {".", "\n"}

\* Words: atoms of several letters, each beginning and ending with a letter.
ExplanationWords == {"because", "since", "therefore", "thus", "hence", "as a result"}
SubstitutionWords == {"substituting", "replacing", "plugging in"}
SimplificationWords == {"simplifying", "reducing", "combining"}
VerificationWords == {"checking", "verifying", "confirming"}
ConclusionWords == {"therefore", "thus", "hence", "we get", "we obtain"}
LabelWords == {"answer", "solution", "result"}

\* re.IGNORECASE: the pattern's lower-case words match the text in any case.
Lower(a) ==
    CASE a = "Answer" -> "answer"
      [] a = "Because" -> "because"
      [] OTHER -> a

\* [a-zA-Z] matches the first or last character of the atom.
IsLetter(a) ==
    \/ a \in {"x", "f"}
    \/ Lower(a) \in ExplanationWords \cup SubstitutionWords \cup SimplificationWords
                    \cup VerificationWords \cup ConclusionWords \cup LabelWords

\* \w
IsWordChar(a) == a \in Digits \/ IsLetter(a)

\* The first index from i on whose atom is not in S (Len(t) + 1 when none):
\* where a greedy S* or S+ that starts at i ends.
RECURSIVE SkipWhile(_, _, _)
SkipWhile(t, i, S) ==
    IF i <= Len(t) /\ t[i] \in S THEN SkipWhile(t, i + 1, S) ELSE i

\* t[i] when i is an index of t, else an atom of no class (the text's edge).
At(t, i) == IF i >= 1 /\ i <= Len(t) THEN t[i] ELSE "edge"

\* \b between t[k-1] and t[k]
WordBoundary(t, k) == IsWordChar(At(t, k - 1)) # IsWordChar(At(t, k))

Min(S) == CHOOSE m \in S : \A n \in S : m <= n

\* str.split('\n')
RECURSIVE SplitLines(_)
SplitLines(t) ==
    LET nl == {i \in 1..Len(t) : t[i] = "\n"}
    IN  IF nl = {} THEN <<t>>
        ELSE <<SubSeq(t, 1, Min(nl) - 1)>> \o SplitLines(SubSeq(t, Min(nl) + 1, Len(t)))

\* str.strip()
Strip(t) ==
    LET keep == {i \in 1..Len(t) : t[i] \notin Spaces}
    IN  IF keep = {} THEN <<>>
        ELSE SubSeq(t, Min(keep), CHOOSE m \in keep : \A n \in keep : n <= m)

----------------------------------------------------------------------------
(* ProblemEvaluator.step_patterns and _extract_steps                       *)

\* The keys of step_patterns in declaration (dict insertion) order.
step_patterns ==
    <<"calculation", "equation", "formula", "explanation",
      "substitution", "simplification", "verification", "conclusion">>

\* \d+\s*[\+\-\*\/]\s*\d+\s*=\s*\d+ matched from index i
CalculationAt(t, i) ==
    /\ At(t, i) \in Digits
    /\ LET op == SkipWhile(t, SkipWhile(t, i, Digits), Spaces)
           d2 == SkipWhile(t, op + 1, Spaces)
           eq == SkipWhile(t, SkipWhile(t, d2, Digits), Spaces)
       IN  /\ At(t, op) \in Operators
           /\ At(t, d2) \in Digits
           /\ At(t, eq) = "="
           /\ At(t, SkipWhile(t, eq + 1, Spaces)) \in Digits

\* [a-zA-Z]\s*=\s*\d+ matched from index i
EquationAt(t, i) ==
    /\ IsLetter(At(t, i))
    /\ LET eq == SkipWhile(t, i + 1, Spaces)
       IN  /\ At(t, eq) = "="
           /\ At(t, SkipWhile(t, eq + 1, Spaces)) \in Digits

\* [a-zA-Z]\([^)]+\)\s*=\s*\d+ matched from index i
FormulaAt(t, i) ==
    /\ IsLetter(At(t, i))
    /\ At(t, i + 1) = "("
    /\ LET close == SkipWhile(t, i + 2, {t[j] : j \in 1..Len(t)} \ {")"})
           eq == SkipWhile(t, close + 1, Spaces)
       IN  /\ close > i + 2
           /\ At(t, close) = ")"
           /\ At(t, eq) = "="
           /\ At(t, SkipWhile(t, eq + 1, Spaces)) \in Digits

\* (?:w1|w2|...) with re.IGNORECASE matched from index i
WordAt(t, i, words) == Lower(At(t, i)) \in words

\* re.search(self.step_patterns[step_type], line, re.IGNORECASE)
PatternMatches(step_type, line) ==
    \E i \in 1..Len(line) :
        CASE step_type = "calculation" -> CalculationAt(line, i)
          [] step_type = "equation" -> EquationAt(line, i)
          [] step_type = "formula" -> FormulaAt(line, i)
          [] step_type = "explanation" -> WordAt(line, i, ExplanationWords)
          [] step_type = "substitution" -> WordAt(line, i, SubstitutionWords)
          [] step_type = "simplification" -> WordAt(line, i, SimplificationWords)
          [] step_type = "verification" -> WordAt(line, i, VerificationWords)
          [] step_type = "conclusion" -> WordAt(line, i, ConclusionWords)

\* ClassifyFrom without its `break`: every matching pattern appends a step.
RECURSIVE ClassifyNoBreak(_, _)
ClassifyNoBreak(line, k) ==
    IF k > Len(step_patterns) THEN <<>>
    ELSE (IF PatternMatches(step_patterns[k], line)
          THEN <<[type |-> step_patterns[k], content |-> line]>> ELSE <<>>)
         \o ClassifyNoBreak(line, k + 1)

\* The inner loop of _extract_steps: the steps one stripped line appends,
\* trying the patterns from index k of step_patterns on.
RECURSIVE ClassifyFrom(_, _)
ClassifyFrom(line, k) ==
    IF k > Len(step_patterns) THEN <<>>
    ELSE IF PatternMatches(step_patterns[k], line)
         THEN <<[type |-> step_patterns[k], content |-> line]>>
         ELSE ClassifyFrom(line, k + 1)

ClassifyLine(line) == ClassifyFrom(line, 1)

\* The outer loop of _extract_steps over the lines from index n on; `line`
\* is the stripped line, bound once as the element of a singleton set.
RECURSIVE StepsOfLines(_, _)
StepsOfLines(lines, n) ==
    IF n > Len(lines) THEN <<>>
    ELSE (CHOOSE found \in
              { IF line = <<>> THEN <<>> ELSE ClassifyLine(line) :
                  line \in {Strip(lines[n])} } : TRUE)
         \o StepsOfLines(lines, n + 1)

\* ProblemEvaluator._extract_steps
ExtractSteps(text) ==
    IF text = None \/ text = <<>> THEN <<>>
    ELSE CHOOSE step_list \in
             { StepsOfLines(lines, 1) : lines \in {SplitLines(text)} } : TRUE

----------------------------------------------------------------------------
(* ProblemEvaluator._check_correctness                                     *)

\* \b\d+\b matched from index i: the digits run on to the first non-digit,
\* and no shorter run ends at a word boundary.
NumberAt(t, i) ==
    /\ At(t, i) \in Digits
    /\ WordBoundary(t, i)
    /\ WordBoundary(t, SkipWhile(t, i, Digits))

\* re.findall(r'\b\d+\b', response) from index pos on: the matches left to
\* right, each search resuming where the last match ended.
RECURSIVE FindNumbers(_, _)
FindNumbers(t, pos) ==
    LET starts == {i \in pos..Len(t) : NumberAt(t, i)}
    IN  IF starts = {} THEN <<>>
        ELSE LET i == Min(starts)
                 e == SkipWhile(t, i, Digits)
             IN  <<SubSeq(t, i, e - 1)>> \o FindNumbers(t, e)

\* str(correct_answer) in numbers
InList(x, list) == \E k \in 1..Len(list) : list[k] = x

\* _check_correctness testing str(correct_answer) in response: the answer
\* anywhere in the text instead of among its numbers.
CheckCorrectnessInText(text, answer) ==
    IF text = None \/ text = <<>> \/ answer = None \/ answer = <<>> THEN FALSE
    ELSE \E i \in 1..Len(text) :
             /\ i + Len(answer) - 1 <= Len(text)
             /\ SubSeq(text, i, i + Len(answer) - 1) = answer

\* _check_correctness as the bare test str(correct_answer) in response, with
\* no guard for an empty response or an empty answer.
CheckCorrectnessUnguarded(text, answer) ==
    \E i \in 1..(Len(text) + 1) :
        /\ i + Len(answer) - 1 <= Len(text)
        /\ SubSeq(text, i, i + Len(answer) - 1) = answer

\* ProblemEvaluator._check_correctness
CheckCorrectness(text, answer) ==
    IF text = None \/ text = <<>> \/ answer = None \/ answer = <<>> THEN FALSE
    ELSE InList(answer, FindNumbers(text, 1))

----------------------------------------------------------------------------
(* ProblemEvaluator._extract_answer                                        *)

\* The list `patterns` with the bare-number pattern moved to the front.
BarePatternFirst == <<"bare", "answer", "solution", "result">>

\* The list `patterns` in order: the three labelled patterns, then
\* (\d+)(?:\s*$|\s*[\.\n]), named "bare".
answer_patterns == <<"answer", "solution", "result", "bare">>

\* $ without re.MULTILINE: the end of the string, or just before a newline
\* that ends the string.
EndOfString(t, k) == k = Len(t) + 1 \/ (k = Len(t) /\ t[k] = "\n")

\* Where the group (\d+) of pattern p starts when p matches from index i.
GroupStart(p, t, i) ==
    IF p = "bare" THEN i ELSE SkipWhile(t, i + 1, LabelSeparators)

\* Pattern p matched from index i.  label[:\s]+(\d+): the label, one or more
\* separators, a digit.  (\d+)(?:\s*$|\s*[\.\n]): the digits run on to the
\* first non-digit, then some of the white space that follows, then the end
\* of the string or a terminator.
AnswerPatternAt(p, t, i) ==
    IF p = "bare"
    THEN /\ At(t, i) \in Digits
         /\ LET e == SkipWhile(t, i, Digits)
            IN  \E k \in e..SkipWhile(t, e, Spaces) :
                    EndOfString(t, k) \/ At(t, k) \in Terminators
    ELSE /\ Lower(At(t, i)) = p
         /\ GroupStart(p, t, i) > i + 1
         /\ At(t, GroupStart(p, t, i)) \in Digits

\* SearchAnswer returning the rightmost match instead of the leftmost.
SearchAnswerLast(p, t) ==
    LET starts == {i \in 1..Len(t) : AnswerPatternAt(p, t, i)}
    IN  IF starts = {} THEN None
        ELSE LET g == GroupStart(p, t, CHOOSE m \in starts : \A n \in starts : n <= m)
             IN  SubSeq(t, g, SkipWhile(t, g, Digits) - 1)

\* SearchAnswer with labelled patterns whose group is (\d*): a label and its
\* separators match with no digit after them, and group(1) is then ''.
SearchAnswerOptionalDigits(p, t) ==
    LET starts == {i \in 1..Len(t) :
                      IF p = "bare" THEN AnswerPatternAt(p, t, i)
                      ELSE Lower(At(t, i)) = p /\ GroupStart(p, t, i) > i + 1}
    IN  IF starts = {} THEN None
        ELSE LET g == GroupStart(p, t, Min(starts))
             IN  SubSeq(t, g, SkipWhile(t, g, Digits) - 1)

\* re.search(pattern, response, re.IGNORECASE): the leftmost match's
\* group(1), or None.
SearchAnswer(p, t) ==
    LET starts == {i \in 1..Len(t) : AnswerPatternAt(p, t, i)}
    IN  IF starts = {} THEN None
        ELSE LET g == GroupStart(p, t, Min(starts))
             IN  SubSeq(t, g, SkipWhile(t, g, Digits) - 1)

\* The loop over `patterns` from index k on.
RECURSIVE ExtractFrom(_, _)
ExtractFrom(t, k) ==
    IF k > Len(answer_patterns) THEN None
    ELSE IF SearchAnswer(answer_patterns[k], t) # None
         THEN SearchAnswer(answer_patterns[k], t)
         ELSE ExtractFrom(t, k + 1)

\* ProblemEvaluator._extract_answer
ExtractAnswer(text) ==
    IF text = None \/ text = <<>> THEN None ELSE ExtractFrom(text, 1)

----------------------------------------------------------------------------
(* ProblemEvaluator._analyze_steps and _check_step_completeness            *)

expected_sequence ==
    <<"explanation", "substitution", "calculation",
      "simplification", "verification", "conclusion">>

\* _check_step_completeness asking for the expected types in their order:
\* expected_sequence from index k on is a subsequence of step_sequence from
\* index j on.
RECURSIVE InOrderFrom(_, _, _)
InOrderFrom(step_sequence, j, k) ==
    IF k > Len(expected_sequence) THEN TRUE
    ELSE IF j > Len(step_sequence) THEN FALSE
    ELSE IF step_sequence[j] = expected_sequence[k]
         THEN InOrderFrom(step_sequence, j + 1, k + 1)
         ELSE InOrderFrom(step_sequence, j + 1, k)

CheckStepCompletenessInOrder(step_sequence) ==
    IF step_sequence = <<>> THEN FALSE
    ELSE InOrderFrom(step_sequence, 1, 1)

\* ProblemEvaluator._check_step_completeness
CheckStepCompleteness(step_sequence) ==
    IF step_sequence = <<>> THEN FALSE
    ELSE \A k \in 1..Len(expected_sequence) :
             InList(expected_sequence[k], step_sequence)

\* _analyze_steps with len(step_counts) in the place of len(steps): the
\* step count is the number of step types.
AnalyzeStepsCountingTypes(step_list) ==
    LET step_sequence == [j \in 1..Len(step_list) |-> step_list[j].type]
        step_counts ==
            [ty \in {step_sequence[j] : j \in 1..Len(step_list)} |->
                Cardinality({j \in 1..Len(step_list) : step_sequence[j] = ty})]
    IN  [step_count |-> Cardinality(DOMAIN step_counts),
         step_types |-> step_counts,
         completeness |-> CheckStepCompleteness(step_sequence)]

\* ProblemEvaluator._analyze_steps; step_types is the dict step_counts.
AnalyzeSteps(step_list) ==
    LET step_sequence == [j \in 1..Len(step_list) |-> step_list[j].type]
    IN  [step_count |-> Len(step_list),
         step_types |->
             [ty \in {step_sequence[j] : j \in 1..Len(step_list)} |->
                 Cardinality({j \in 1..Len(step_list) : step_sequence[j] = ty})],
         completeness |-> CheckStepCompleteness(step_sequence)]

----------------------------------------------------------------------------
(* ProblemEvaluator.evaluate_responses                                     *)
(*                                                                         *)
(* A response value is Python's None ([kind |-> "none"]), a str, a dict    *)
(* (solution: its 'solution' or None when the key is missing; category:    *)
(* its 'category' or NoCategory) or a value of another type that is true   *)
(* in a condition, such as a number ([kind |-> "other"]).  A dict is a     *)
(* function on its keys.                                                   *)

NoCategory == "None"

NoneValue == [kind |-> "none"]
Str(t) == [kind |-> "str", text |-> t]
Dict(sol, cat) == [kind |-> "dict", solution |-> sol, category |-> cat]
OtherValue == [kind |-> "other"]

\* dict.get(key, default)
Get(d, key, default) == IF key \in DOMAIN d THEN d[key] ELSE default

\* The empty dict.
EmptyDict == <<>>

\* d[key] = value
Put(d, key, value) ==
    [k \in DOMAIN d \cup {key} |-> IF k = key THEN value ELSE d[k]]

\* Lines 79-87: response_text of a str, dict or None response.
ResponseText(value) ==
    CASE value.kind = "dict" -> value.solution
      [] value.kind = "str" -> value.text
      [] OTHER -> None

\* Lines 79-87: predicted_category.
PredictedCategory(prob, model_name, value) ==
    IF value.kind = "dict" THEN value.category
    ELSE LET categories == Get(prob, "model_categories", EmptyDict)
         IN  IF categories # EmptyDict
             THEN Get(categories, model_name, NoCategory)
             ELSE NoCategory

\* Lines 91-104: the record of a model without a response.
NoResponseRecord(category) ==
    [response |-> None,
     predicted_category |-> category,
     correctness |-> [is_correct |-> FALSE,
                      matched_answer |-> None,
                      error |-> "No response received from model"],
     step_analysis |-> [step_count |-> 0,
                        step_types |-> EmptyDict,
                        completeness |-> FALSE]]

\* Lines 108-121: the record of a model with a response text.
ResponseRecord(prob, text, category) ==
    [response |-> text,
     predicted_category |-> category,
     correctness |->
         [is_correct |-> CheckCorrectness(text, Get(prob, "correct_answer", <<>>)),
          matched_answer |-> ExtractAnswer(text)],
     step_analysis |-> AnalyzeSteps(ExtractSteps(text))]

\* EntryRecord without the `if response_text is None` branch.
EntryRecordNoNoneBranch(prob, model_name, value) ==
    ResponseRecord(prob, ResponseText(value),
                   PredictedCategory(prob, model_name, value))

\* One pass of the loop body for a response that is None, a str or a dict.
EntryRecord(prob, model_name, value) ==
    IF ResponseText(value) = None
    THEN NoResponseRecord(PredictedCategory(prob, model_name, value))
    ELSE ResponseRecord(prob, ResponseText(value),
                        PredictedCategory(prob, model_name, value))

\* EvalLoop whose None branch continues without storing a record.
RECURSIVE EvalLoopSkipsNone(_, _, _, _)
EvalLoopSkipsNone(prob, items, k, evals) ==
    IF k > Len(items) THEN [raised |-> FALSE, evals |-> evals]
    ELSE IF items[k][2].kind = "other" THEN [raised |-> TRUE, evals |-> evals]
    ELSE IF ResponseText(items[k][2]) = None
         THEN EvalLoopSkipsNone(prob, items, k + 1, evals)
    ELSE EvalLoopSkipsNone(prob, items, k + 1,
             Put(evals, items[k][1], EntryRecord(prob, items[k][1], items[k][2])))

\* EvalLoop with a verdict that is kept from one model to the next.
RECURSIVE EvalLoopKeepsVerdict(_, _, _, _)
EvalLoopKeepsVerdict(prob, items, k, evals) ==
    IF k > Len(items) THEN [raised |-> FALSE, evals |-> evals]
    ELSE IF items[k][2].kind = "other" THEN [raised |-> TRUE, evals |-> evals]
    ELSE LET record == EntryRecord(prob, items[k][1], items[k][2])
             kept == \E n \in DOMAIN evals : evals[n].correctness.is_correct
         IN  EvalLoopKeepsVerdict(prob, items, k + 1,
                 Put(evals, items[k][1],
                     [record EXCEPT !.correctness.is_correct = @ \/ kept]))

\* The loop of evaluate_responses from item k on, evals being
\* results["model_evaluations"] so far.  A response that is neither None, a
\* str nor a dict reaches response.split in _extract_steps, which raises
\* AttributeError; evaluate_responses logs it and raises it again.
RECURSIVE EvalLoop(_, _, _, _)
EvalLoop(prob, items, k, evals) ==
    IF k > Len(items) THEN [raised |-> FALSE, evals |-> evals]
    ELSE IF items[k][2].kind = "other" THEN [raised |-> TRUE, evals |-> evals]
    ELSE EvalLoop(prob, items, k + 1,
                  Put(evals, items[k][1], EntryRecord(prob, items[k][1], items[k][2])))

\* ProblemEvaluator.evaluate_responses: whether it raised, and what it
\* returned when it did not.
EvaluateResponses(prob, items) ==
    LET out == EvalLoop(prob, items, 1, EmptyDict)
    IN  [raised |-> out.raised,
         value |-> [problem_id |-> Get(prob, "problem_id", "unknown"),
                    question |-> Get(prob, "question", ""),
                    correct_answer |-> Get(prob, "correct_answer", <<>>),
                    model_evaluations |-> out.evals]]

\* evaluate_responses with `problem.setdefault('model_categories', {})` in
\* the place of `problem.get('model_categories', {})`: the problem is left
\* with a key it may not have had.
ArgumentsAfterSetdefault(prob, items) ==
    [problem |-> Put(prob, "model_categories",
                     Get(prob, "model_categories", EmptyDict)),
     responses |-> items]

\* What evaluate_responses leaves in its two arguments, returning or
\* raising: it reads them (problem.get, responses.items(), response.get)
\* and no statement of it stores into the problem, the responses or a
\* response.
ArgumentsAfter(prob, items) == [problem |-> prob, responses |-> items]

----------------------------------------------------------------------------
(* utils.result_analyzer.ResultAnalyzer.analyze                            *)
(*                                                                         *)
(* A dict whose iteration order matters is the sequence of its (key,       *)
(* value) items.  results is the sequence of (problem_id, problem_results) *)
(* items, and the model_evaluations of a problem_results the sequence of   *)
(* (model, evaluation) items.  A quotient of two ints is kept in lowest    *)
(* terms.  The 'timestamp' of the analysis is the clock's and is left out. *)

RECURSIVE GCD(_, _)
GCD(a, b) == IF b = 0 THEN a ELSE GCD(b, a % b)

\* a / b for naturals a and b, b positive.
Divide(a, b) == [num |-> a \div GCD(a, b), den |-> b \div GCD(a, b)]

\* 0.0
Zero == [num |-> 0, den |-> 1]

\* The model names the analyzer writes out in each of its functions.
analyzer_models == {"chatgpt", "gemini", "perplexity"}

\* items.get(key, default) on a sequence of items.
ItemsGet(items, key, default) ==
    IF \E k \in 1..Len(items) : items[k][1] = key
    THEN items[CHOOSE k \in 1..Len(items) : items[k][1] = key][2]
    ELSE default

\* The (problem, model) pairs in the order of the nested loops
\* `for problem_id, problem_results in results.items()` and
\* `for model, evaluation in ...model_evaluations.items()`.
RECURSIVE PairsFrom(_, _)
PairsFrom(items, k) ==
    IF k > Len(items) THEN <<>>
    ELSE LET evals == items[k][2].model_evaluations
         IN  [j \in 1..Len(evals) |->
                 [problem_id |-> items[k][1],
                  problem_results |-> items[k][2],
                  model |-> evals[j][1],
                  evaluation |-> evals[j][2]]]
             \o PairsFrom(items, k + 1)

\* _calculate_overall_statistics: stats[...][model] += 1 raises KeyError for
\* a model that is not one of the three.
CalculateOverallStatistics(items) ==
    LET pairs == PairsFrom(items, 1)
        Correct(m) ==
            Cardinality({k \in 1..Len(pairs) :
                            /\ pairs[k].model = m
                            /\ pairs[k].evaluation.correctness.is_correct})
        Incorrect(m) ==
            Cardinality({k \in 1..Len(pairs) :
                            /\ pairs[k].model = m
                            /\ ~pairs[k].evaluation.correctness.is_correct})
    IN  IF \E k \in 1..Len(pairs) : pairs[k].model \notin analyzer_models
        THEN [raised |-> TRUE]
        ELSE [raised |-> FALSE,
              value |->
                 [total_problems |-> Len(items),
                  correct_answers |-> [m \in analyzer_models |-> Correct(m)],
                  incorrect_answers |-> [m \in analyzer_models |-> Incorrect(m)],
                  accuracy |->
                     [m \in analyzer_models |->
                         IF Correct(m) + Incorrect(m) > 0
                         THEN Divide(Correct(m), Correct(m) + Incorrect(m))
                         ELSE Zero]]]

\* The loop `for problem_results in results.values()` of
\* _analyze_model_performance counting every problem in total, whether or
\* not it holds an evaluation of the model.
RECURSIVE PerformanceCountingProblems(_, _, _, _)
PerformanceCountingProblems(items, k, model, acc) ==
    IF k > Len(items) THEN acc
    ELSE LET evaluation == ItemsGet(items[k][2].model_evaluations, model, EmptyDict)
         IN  PerformanceCountingProblems(items, k + 1, model,
                 IF evaluation = EmptyDict
                 THEN [acc EXCEPT !.total = @ + 1]
                 ELSE [total |-> acc.total + 1,
                       correct |-> acc.correct +
                           (IF evaluation.correctness.is_correct THEN 1 ELSE 0),
                       total_steps |-> acc.total_steps
                                        + evaluation.step_analysis.step_count])

\* The loop `for problem_results in results.values()` of
\* _analyze_model_performance from problem k on.
RECURSIVE PerformanceFrom(_, _, _, _)
PerformanceFrom(items, k, model, acc) ==
    IF k > Len(items) THEN acc
    ELSE LET evaluation == ItemsGet(items[k][2].model_evaluations, model, EmptyDict)
         IN  PerformanceFrom(items, k + 1, model,
                 IF evaluation = EmptyDict THEN acc
                 ELSE [total |-> acc.total + 1,
                       correct |-> acc.correct +
                           (IF evaluation.correctness.is_correct THEN 1 ELSE 0),
                       total_steps |-> acc.total_steps
                                        + evaluation.step_analysis.step_count])

\* _analyze_model_performance
AnalyzeModelPerformance(items) ==
    [model \in analyzer_models |->
        LET acc == PerformanceFrom(items, 1, model,
                       [total |-> 0, correct |-> 0, total_steps |-> 0])
        IN  [total |-> acc.total,
             correct |-> acc.correct,
             accuracy |-> IF acc.total > 0
                          THEN Divide(acc.correct, acc.total) ELSE Zero,
             avg_steps |-> IF acc.total > 0
                           THEN Divide(acc.total_steps, acc.total) ELSE Zero]]

\* The sum of the counts of a step type over the pairs of a model from pair
\* k on.
RECURSIVE StepCountFrom(_, _, _, _)
StepCountFrom(pairs, k, model, step_type) ==
    IF k > Len(pairs) THEN 0
    ELSE (IF pairs[k].model = model
          THEN Get(pairs[k].evaluation.step_analysis.step_types, step_type, 0)
          ELSE 0)
         + StepCountFrom(pairs, k + 1, model, step_type)

\* ResultAnalyzer._analyze_steps: step_analysis[model] raises KeyError for
\* a model that is not one of the three, once it has a step type to add.
AnalyzeStepTypes(items) ==
    LET pairs == PairsFrom(items, 1)
        TypesOf(m) ==
            UNION {DOMAIN pairs[k].evaluation.step_analysis.step_types :
                   k \in {j \in 1..Len(pairs) : pairs[j].model = m}}
    IN  IF \E k \in 1..Len(pairs) :
              /\ pairs[k].model \notin analyzer_models
              /\ DOMAIN pairs[k].evaluation.step_analysis.step_types # {}
        THEN [raised |-> TRUE]
        ELSE [raised |-> FALSE,
              value |-> [m \in analyzer_models |->
                           [ty \in TypesOf(m) |-> StepCountFrom(pairs, 1, m, ty)]]]

\* The list errors[model] from pair k on, in the order of the loops.
RECURSIVE ErrorsFrom(_, _, _)
ErrorsFrom(pairs, k, model) ==
    IF k > Len(pairs) THEN <<>>
    ELSE (IF pairs[k].model = model /\ ~pairs[k].evaluation.correctness.is_correct
          THEN << [problem_id |-> pairs[k].problem_id,
                   expected |-> pairs[k].problem_results.correct_answer,
                   received |-> pairs[k].evaluation.correctness.matched_answer] >>
          ELSE <<>>)
         \o ErrorsFrom(pairs, k + 1, model)

\* _analyze_errors: errors[model].append raises KeyError for a model that is
\* not one of the three, once it has an incorrect evaluation.
AnalyzeErrors(items) ==
    LET pairs == PairsFrom(items, 1)
    IN  IF \E k \in 1..Len(pairs) :
              /\ pairs[k].model \notin analyzer_models
              /\ ~pairs[k].evaluation.correctness.is_correct
        THEN [raised |-> TRUE]
        ELSE [raised |-> FALSE,
              value |-> [m \in analyzer_models |-> ErrorsFrom(pairs, 1, m)]]

\* The category _analyze_categories files an evaluation under.
CategoryOf(evaluation) ==
    IF evaluation.predicted_category \in {NoCategory, ""}
    THEN "unknown" ELSE evaluation.predicted_category

\* _analyze_categories without the test of is_correct: every evaluation of
\* the three models is counted.
AnalyzeCategoriesOfAll(items) ==
    LET pairs == PairsFrom(items, 1)
        counted == {k \in 1..Len(pairs) : pairs[k].model \in analyzer_models}
    IN  [cat \in {CategoryOf(pairs[k].evaluation) : k \in counted} |->
            [m \in analyzer_models |->
                Cardinality({k \in counted :
                                /\ pairs[k].model = m
                                /\ CategoryOf(pairs[k].evaluation) = cat})]]

\* _analyze_categories: the correct evaluations of the three models by
\* predicted category.
AnalyzeCategories(items) ==
    LET pairs == PairsFrom(items, 1)
        counted == {k \in 1..Len(pairs) :
                       /\ pairs[k].model \in analyzer_models
                       /\ pairs[k].evaluation.correctness.is_correct}
    IN  [cat \in {CategoryOf(pairs[k].evaluation) : k \in counted} |->
            [m \in analyzer_models |->
                Cardinality({k \in counted :
                                /\ pairs[k].model = m
                                /\ CategoryOf(pairs[k].evaluation) = cat})]]

\* ResultAnalyzer.analyze: whether it raised, and the analysis when it did
\* not.  An exception of one of its five parts is logged and raised again.
Analyze(items) ==
    LET overall == CalculateOverallStatistics(items)
        step_analysis == AnalyzeStepTypes(items)
        errors == AnalyzeErrors(items)
    IN  IF overall.raised \/ step_analysis.raised \/ errors.raised
        THEN [raised |-> TRUE]
        ELSE [raised |-> FALSE,
              value |-> [overall_statistics |-> overall.value,
                         model_performance |-> AnalyzeModelPerformance(items),
                         step_analysis |-> step_analysis.value,
                         error_analysis |-> errors.value,
                         category_performance |-> AnalyzeCategories(items)]]

----------------------------------------------------------------------------
(* evaluation.result_analyzer.ResultAnalyzer.calculate_metrics             *)
(*                                                                         *)
(* self.results is the sequence of (problem_id, problem_data) items and a  *)
(* problem_data the sequence of its (key, value) items.  A value is a str  *)
(* (Text) or a dict (Data, a function on the keys it holds).  A response   *)
(* time is a whole number of tenths of a second.                           *)

Text(string) == [kind |-> "str", text |-> string]
Data(fields) == [kind |-> "dict", fields |-> fields]

\* The (problem, key) pairs in the order of the nested loops
\* `for problem_id, problem_data in self.results.items()` and
\* `for model_name, model_data in problem_data.items()`; category is
\* problem_data.get('category', 'unknown').
RECURSIVE EntriesFrom(_, _)
EntriesFrom(items, k) ==
    IF k > Len(items) THEN <<>>
    ELSE LET problem_data == items[k][2]
         IN  [j \in 1..Len(problem_data) |->
                 [problem_id |-> items[k][1],
                  category |-> ItemsGet(problem_data, "category", Text("unknown")).text,
                  model_name |-> problem_data[j][1],
                  model_data |-> problem_data[j][2]]]
             \o EntriesFrom(items, k + 1)

\* The entries the loops with `if model_name != 'category'` work on.
ModelEntries(items) ==
    LET NotCategory(e) == e.model_name # "category"
    IN  SelectSeq(EntriesFrom(items, 1), NotCategory)

\* model_data.get on a str raises AttributeError.
GetRaises(entries) == \E k \in 1..Len(entries) : entries[k].model_data.kind = "str"

\* model_data.get('is_correct') in a condition.
IsCorrect(e) == Get(e.model_data.fields, "is_correct", FALSE) = TRUE

\* How many entries of a sequence pass the test model_data.get('is_correct').
CorrectIn(entries) == Cardinality({k \in 1..Len(entries) : IsCorrect(entries[k])})

\* len(model_data.get('steps', []))
StepsOf(e) == Len(Get(e.model_data.fields, "steps", <<>>))

\* model_data.get('response_time', 0)
TimeOf(e) == Get(e.model_data.fields, "response_time", 0)

\* The sum of a sequence of numbers from index k on.
RECURSIVE SumFrom(_, _)
SumFrom(numbers, k) ==
    IF k > Len(numbers) THEN 0 ELSE numbers[k] + SumFrom(numbers, k + 1)

\* The sum of the steps, and of the response times, of a sequence of entries.
TotalSteps(entries) == SumFrom([k \in 1..Len(entries) |-> StepsOf(entries[k])], 1)
TotalTime(entries) == SumFrom([k \in 1..Len(entries) |-> TimeOf(entries[k])], 1)

\* (a / b) * 100
Percent(a, b) == Divide(a * 100, b)

\* _calculate_overall_accuracy without the test `if total_problems > 0`:
\* the division raises ZeroDivisionError when there is no entry.
CalculateOverallAccuracyUnguarded(items) ==
    LET entries == EntriesFrom(items, 1)
    IN  IF GetRaises(entries) \/ Len(entries) = 0 THEN [raised |-> TRUE]
        ELSE [raised |-> FALSE,
              value |-> Percent(CorrectIn(entries), Len(entries))]

\* _calculate_overall_accuracy: every item of every problem_data, whatever
\* its key.
CalculateOverallAccuracy(items) ==
    LET entries == EntriesFrom(items, 1)
    IN  IF GetRaises(entries) THEN [raised |-> TRUE]
        ELSE [raised |-> FALSE,
              value |-> IF Len(entries) > 0
                        THEN Percent(CorrectIn(entries), Len(entries))
                        ELSE Zero]

\* _calculate_category_accuracy
CalculateCategoryAccuracy(items) ==
    LET entries == ModelEntries(items)
        In(cat) == {k \in 1..Len(entries) : entries[k].category = cat}
    IN  IF GetRaises(entries) THEN [raised |-> TRUE]
        ELSE [raised |-> FALSE,
              value |-> [cat \in {entries[k].category : k \in 1..Len(entries)} |->
                            Percent(Cardinality({k \in In(cat) : IsCorrect(entries[k])}),
                                    Cardinality(In(cat)))]]

\* The model names of a sequence of entries.
NamesOf(entries) == {entries[k].model_name : k \in 1..Len(entries)}

\* The entries of a model, in order.
EntriesOf(entries, model) ==
    LET OfModel(e) == e.model_name = model
    IN  SelectSeq(entries, OfModel)

\* _calculate_step_completeness
CalculateStepCompleteness(items) ==
    LET entries == ModelEntries(items)
    IN  IF GetRaises(entries) THEN [raised |-> TRUE]
        ELSE [raised |-> FALSE,
              value |-> [model \in NamesOf(entries) |->
                            Divide(TotalSteps(EntriesOf(entries, model)),
                                   Len(EntriesOf(entries, model)))]]

\* _analyze_error_distribution
AnalyzeErrorDistribution(items) ==
    LET entries == ModelEntries(items)
        Wrong(e) == ~IsCorrect(e)
        ErrorType(e) == Get(e.model_data.fields, "error_type", "unknown")
    IN  IF GetRaises(entries) THEN [raised |-> TRUE]
        ELSE LET wrong == SelectSeq(entries, Wrong)
             IN  [raised |-> FALSE,
                  value |-> [model \in NamesOf(wrong) |->
                      LET mine == EntriesOf(wrong, model)
                      IN  [ty \in {ErrorType(mine[k]) : k \in 1..Len(mine)} |->
                              Cardinality({k \in 1..Len(mine) : ErrorType(mine[k]) = ty})]]]

\* _analyze_response_times: min starts at infinity and max at 0.
AnalyzeResponseTimes(items) ==
    LET entries == ModelEntries(items)
    IN  IF GetRaises(entries) THEN [raised |-> TRUE]
        ELSE [raised |-> FALSE,
              value |-> [model \in NamesOf(entries) |->
                  LET mine == EntriesOf(entries, model)
                      times == {TimeOf(mine[k]) : k \in 1..Len(mine)}
                  IN  [total |-> TotalTime(mine),
                       count |-> Len(mine),
                       min |-> Min(times),
                       max |-> CHOOSE t \in times \cup {0} :
                                   \A u \in times \cup {0} : u <= t,
                       average |-> Divide(TotalTime(mine), Len(mine))]]]

\* _compare_models
CompareModels(items) ==
    LET entries == ModelEntries(items)
    IN  IF GetRaises(entries) THEN [raised |-> TRUE]
        ELSE [raised |-> FALSE,
              value |-> [model \in NamesOf(entries) |->
                  LET mine == EntriesOf(entries, model)
                  IN  [correct |-> CorrectIn(mine),
                       total |-> Len(mine),
                       steps |-> TotalSteps(mine),
                       accuracy |-> Percent(CorrectIn(mine), Len(mine)),
                       avg_steps |-> Divide(TotalSteps(mine), Len(mine))]]]

\* calculate_metrics: whether it raised, and the metrics when it did not.
CalculateMetrics(items) ==
    LET overall == CalculateOverallAccuracy(items)
        category == CalculateCategoryAccuracy(items)
        completeness_of == CalculateStepCompleteness(items)
        distribution == AnalyzeErrorDistribution(items)
        times == AnalyzeResponseTimes(items)
        comparison == CompareModels(items)
    IN  IF \/ overall.raised \/ category.raised \/ completeness_of.raised
           \/ distribution.raised \/ times.raised \/ comparison.raised
        THEN [raised |-> TRUE]
        ELSE [raised |-> FALSE,
              value |-> [overall_accuracy |-> overall.value,
                         category_accuracy |-> category.value,
                         step_completeness |-> completeness_of.value,
                         error_distribution |-> distribution.value,
                         response_times |-> times.value,
                         model_comparison |-> comparison.value]]

\* A results file: absent, holding text that is not JSON, or holding the
\* JSON of a results mapping (its items in order).
MissingFile == [kind |-> "missing"]
CorruptFile == [kind |-> "corrupt"]
JsonFile(items) == [kind |-> "json", content |-> items]

\* _load_results: FileNotFoundError and json.JSONDecodeError are caught,
\* a message is printed and {} is returned.
LoadResults(results_file) ==
    IF results_file.kind = "json"
    THEN [raised |-> FALSE, value |-> results_file.content]
    ELSE [raised |-> FALSE, value |-> <<>>]

\* ResultAnalyzer.__init__: self.results = self._load_results()
NewResultAnalyzer(results_file) == LoadResults(results_file)

----------------------------------------------------------------------------
(* ResultAnalyzer.compare_correct_and_incorrect_models, which main() calls *)
(* on the results of evaluate_problems.  No source file defines it; it is  *)
(* modelled from the ComparativeReporter of the specification: for each    *)
(* problem the models are parted into those that got it right and those    *)
(* that got it wrong; each incorrect model's step sequence is paired       *)
(* against the step sequence of a correct model, with the first index      *)
(* where the step types differ and the types present in one and absent in  *)
(* the other; a problem no model got right is reported as such.  A value   *)
(* that is used more than once is bound once, as the element of a          *)
(* singleton set.                                                          *)

\* The step sequence of an evaluation: the types of the steps of its
\* response, in order.
StepSequenceOf(evaluation) ==
    CHOOSE step_sequence \in
        { [j \in 1..Len(step_list) |-> step_list[j].type] :
            step_list \in {ExtractSteps(evaluation.response)} } : TRUE

\* The first index at which two step sequences differ, one of them ending
\* being a difference; 0 when they are the same.
FirstDivergence(a, b) ==
    LET longest == IF Len(a) >= Len(b) THEN Len(a) ELSE Len(b)
        differ == {i \in 1..longest :
                      i > Len(a) \/ i > Len(b) \/ a[i] # b[i]}
    IN  IF differ = {} THEN 0 ELSE Min(differ)

\* The step types of a sequence.
TypesOf(a) == {a[i] : i \in 1..Len(a)}

\* The comparison of an incorrect model's evaluation with a correct one's.
CompareSteps(correct_model, correct, incorrect) ==
    CHOOSE comparison \in
        { [against |-> correct_model,
           first_divergence |-> FirstDivergence(right, wrong),
           only_in_correct |-> TypesOf(right) \ TypesOf(wrong),
           only_in_incorrect |-> TypesOf(wrong) \ TypesOf(right)] :
            right \in {StepSequenceOf(correct)},
            wrong \in {StepSequenceOf(incorrect)} } : TRUE

\* The report entry of one problem, from its model_evaluations items.
CompareProblem(evals) ==
    CHOOSE entry \in
        { [correct_models |-> {evals[k][1] : k \in correct},
           incorrect_models |-> {evals[k][1] : k \in incorrect},
           no_correct_model |-> (correct = {}),
           divergences |->
               IF correct = {} THEN EmptyDict
               ELSE [m \in {evals[k][1] : k \in incorrect} |->
                        CompareSteps(evals[Min(correct)][1], evals[Min(correct)][2],
                                     ItemsGet(evals, m, EmptyDict))]] :
            correct \in {{k \in 1..Len(evals) : evals[k][2].correctness.is_correct}},
            incorrect \in {{k \in 1..Len(evals) : ~evals[k][2].correctness.is_correct}} } :
        TRUE

\* The report without the problems that no model got right.
CompareSomeCorrectOnly(items) ==
    [problem_id \in {items[k][1] : k \in {j \in 1..Len(items) :
                         \E e \in 1..Len(items[j][2].model_evaluations) :
                             items[j][2].model_evaluations[e][2].correctness.is_correct}} |->
        CHOOSE entry \in
            { CompareProblem(evals) :
                evals \in {ItemsGet(items, problem_id, EmptyDict).model_evaluations} } :
            TRUE]

\* compare_correct_and_incorrect_models: the report, by problem id.
CompareCorrectAndIncorrectModels(items) ==
    [problem_id \in {items[k][1] : k \in 1..Len(items)} |->
        CHOOSE entry \in
            { CompareProblem(evals) :
                evals \in {ItemsGet(items, problem_id, EmptyDict).model_evaluations} } :
            TRUE]

----------------------------------------------------------------------------
(* data.data_loader.DataLoader                                             *)
(*                                                                         *)
(* A path is the sequence of its atoms, the last of them its suffix.  A    *)
(* file is absent, unreadable as a table, or holds a table: the sequence   *)
(* of its records, each a function from column names to a str, an int or   *)
(* nothing (an empty CSV field, a JSON null).  A DataFrame is the sequence *)
(* of its rows with their cells as pandas types them.                      *)

Int(n) == [kind |-> "int", value |-> n]
Float(n) == [kind |-> "float", value |-> n]
NaN == [kind |-> "nan"]

NoTable == [kind |-> "missing"]
BadTable == [kind |-> "corrupt"]
Table(records) == [kind |-> "table", records |-> records]

Frame(rows) == [kind |-> "frame", rows |-> rows]

\* str.endswith
EndsWith(path, suffix) == path # <<>> /\ path[Len(path)] = suffix

\* str(x) of an int, and of the float of the same value.
DigitText(n) == <<"0", "1", "2", "3", "4", "5", "6", "7", "8", "9">>[n + 1]
Render(cell) ==
    CASE cell.kind = "str" -> cell.text
      [] cell.kind = "int" -> <<DigitText(cell.value)>>
      [] cell.kind = "float" -> <<DigitText(cell.value), ".", "0">>
      [] OTHER -> <<"nan">>

\* The dtype pandas gives a column: int64 for ints only, float64 for ints
\* with missing values, object otherwise.
ColumnType(records, column) ==
    LET kinds == {records[k][column].kind : k \in 1..Len(records)}
    IN  IF kinds = {"int"} THEN "int64"
        ELSE IF kinds \subseteq {"int", "nan"} THEN "float64"
        ELSE "object"

\* pd.DataFrame(json.load(f)): the ints of a float64 column are floats.
DataFrame(records) ==
    Frame([k \in 1..Len(records) |->
              [column \in DOMAIN records[k] |->
                  LET cell == records[k][column]
                  IN  IF cell.kind = "int" /\ ColumnType(records, column) = "float64"
                      THEN Float(cell.value) ELSE cell]])

\* pd.read_csv: as above, and a number in a column of text is text.
ReadCsv(records) ==
    Frame([k \in 1..Len(records) |->
              [column \in DOMAIN records[k] |->
                  LET cell == records[k][column]
                      type == ColumnType(records, column)
                  IN  IF cell.kind = "int" /\ type = "float64" THEN Float(cell.value)
                      ELSE IF cell.kind = "int" /\ type = "object" THEN Str(Render(cell))
                      ELSE cell]])

\* How a call ended: the exception it raised, or the value it returned.
Raise(exception) == [raised |-> exception]
Return(value) == [raised |-> "none", value |-> value]

\* load_data accepting the suffix in any case, '.CSV' as '.csv'.
LoadDataAnyCase(path, content, current) ==
    IF EndsWith(path, ".csv") \/ EndsWith(path, ".CSV") \/ EndsWith(path, ".json")
    THEN CASE content.kind = "missing" ->
                  [end |-> Raise("FileNotFoundError"), data |-> current]
           [] content.kind = "corrupt" ->
                  [end |-> Raise("ParseError"), data |-> current]
           [] OTHER ->
                  LET frame == IF EndsWith(path, ".json")
                               THEN DataFrame(content.records)
                               ELSE ReadCsv(content.records)
                  IN  [end |-> Return(frame), data |-> frame]
    ELSE [end |-> Raise("ValueError"), data |-> current]

\* load_data: how it ends and what it leaves in self.data.  self.data is
\* assigned when the file was read; every exception is logged and raised
\* again.
LoadData(path, content, current) ==
    IF EndsWith(path, ".csv") \/ EndsWith(path, ".json")
    THEN CASE content.kind = "missing" ->
                  [end |-> Raise("FileNotFoundError"), data |-> current]
           [] content.kind = "corrupt" ->
                  [end |-> Raise("ParseError"), data |-> current]
           [] OTHER ->
                  LET frame == IF EndsWith(path, ".csv")
                               THEN ReadCsv(content.records)
                               ELSE DataFrame(content.records)
                  IN  [end |-> Return(frame), data |-> frame]
    ELSE [end |-> Raise("ValueError"), data |-> current]

\* DataFrame.dropna(): the rows without a missing value.
DropNa(rows) ==
    LET Whole(row) == \A column \in DOMAIN row : row[column].kind # "nan"
    IN  SelectSeq(rows, Whole)

\* Lines 65-70: the columns problem_text and answer through astype(str).
AsTypeStr(rows) ==
    [k \in 1..Len(rows) |->
        [column \in DOMAIN rows[k] |->
            IF column \in {"problem_text", "answer"}
            THEN Str(Render(rows[k][column])) ELSE rows[k][column]]]

\* preprocess_data
PreprocessData(current) ==
    IF current = NoneValue
    THEN [end |-> Raise("ValueError"), data |-> current]
    ELSE LET frame == Frame(AsTypeStr(DropNa(current.rows)))
         IN  [end |-> Return(frame), data |-> frame]

\* get_problem: iloc raises IndexError past the last row.
GetProblem(current, i) ==
    IF current = NoneValue THEN Raise("ValueError")
    ELSE IF i >= Len(current.rows) THEN Raise("IndexError")
    ELSE Return(current.rows[i + 1])

\* get_all_problems
GetAllProblems(current) ==
    IF current = NoneValue THEN Raise("ValueError")
    ELSE Return(current.rows)

----------------------------------------------------------------------------
(* Input texts: every concatenation of at most n chunks of a chunk set.    *)

RECURSIVE Flatten(_)
Flatten(cs) == IF cs = <<>> THEN <<>> ELSE Head(cs) \o Flatten(Tail(cs))

Texts(chunks, n) ==
    {Flatten(cs) : cs \in UNION {[1..k -> chunks] : k \in 0..n}}

\* No record of a call has been kept.
NoObservation == [call |-> 0]

\* The variables of evaluate_responses while another operation is modelled.
EvalIdle ==
    /\ problem = EmptyDict
    /\ responses = <<>>
    /\ results = EmptyDict
    /\ raised = FALSE
    /\ calls = 0
    /\ seen = NoObservation

\* The variables of evaluate_problems while another operation is modelled.
MainIdle ==
    /\ problems = <<>>
    /\ index = 0
    /\ model_responses = <<>>
    /\ model_categories = EmptyDict
    /\ all_results = EmptyDict
    /\ saved = EmptyDict
    /\ failed = {}

\* The variables of _check_step_completeness while another operation is
\* modelled.
StepIdle ==
    /\ sequence = <<>>
    /\ completeness = FALSE
    /\ steps_analysis = EmptyDict

\* The variables of the two result analyzers while another operation is
\* modelled.
AnalyzerIdle ==
    /\ analyzed = <<>>
    /\ analysis = EmptyDict
    /\ analyze_raised = FALSE
    /\ loaded = <<>>
    /\ metrics = EmptyDict
    /\ metrics_raised = FALSE

\* No file has been read.
NoFile == [kind |-> "none"]

\* The variables of the constructor of the metrics analyzer while another
\* operation is modelled.
LoadIdle ==
    /\ file = NoFile
    /\ load_raised = FALSE

\* No call has been made.
NoCall == [call |-> "none"]

\* The variables of the data loader while another operation is modelled.
LoaderIdle ==
    /\ data_path = <<>>
    /\ disk = NoFile
    /\ data = NoneValue
    /\ last_call = NoCall
    /\ load_succeeded = FALSE

\* The variables of the comparison report while another operation is
\* modelled.
ReportIdle == comparison_report = EmptyDict

\* The variables of main() while another operation is modelled.
PipelineIdle ==
    /\ env_present = FALSE
    /\ written = EmptyDict

\* The variables of the operations on files while another operation is
\* modelled.
IoIdle == LoadIdle /\ LoaderIdle /\ ReportIdle /\ PipelineIdle

\* The variables of the pure functions while another operation is modelled.
TextIdle ==
    /\ response = <<>>
    /\ correct_answer = <<>>
    /\ steps = <<>>
    /\ is_correct = FALSE
    /\ matched = None

MaxStepChunks == 3

StepChunks ==
    { <<"3", "+", "4", "=">>, <<"x", " ", "=">>, <<"f", "(", "3", ")", "=">>,
      <<"4">>, <<" ">>, <<"\n">>,
      <<"Because">>, <<"therefore">>, <<"substituting">>, <<"simplifying">>,
      <<"checking">>, <<"we get">> }

StepTexts == Texts(StepChunks, MaxStepChunks)

----------------------------------------------------------------------------
(* SpecSteps: _extract_steps applied to a response.                        *)

InitSteps ==
    /\ IoIdle
    /\ pc = "start"
    /\ StepIdle
    /\ AnalyzerIdle
    /\ EvalIdle
    /\ MainIdle
    /\ response \in StepTexts
    /\ correct_answer = <<>>
    /\ steps = <<>>
    /\ is_correct = FALSE
    /\ matched = None

CallExtractSteps ==
    /\ pc = "start"
    /\ steps' = ExtractSteps(response)
    /\ pc' = "done"
    /\ UNCHANGED <<response, correct_answer, is_correct, matched, evalVars, mainVars, stepVars, analyzerVars, ioVars>>

NextSteps == CallExtractSteps

SpecSteps == InitSteps /\ [][NextSteps]_vars

----------------------------------------------------------------------------
(* SpecCorrectness: _check_correctness applied to a response and a ground  *)
(* truth.                                                                  *)

MaxCorrectnessChunks == 4

CorrectnessChunks == { <<"3">>, <<"4">>, <<".">>, <<" ">>, <<"x">> }

CorrectnessTexts == Texts(CorrectnessChunks, MaxCorrectnessChunks)

\* Ground truths: "4", "3", "34", "4.0", "4.00" and the empty string.
Answers ==
    { <<"4">>, <<"3">>, <<"3", "4">>, <<"4", ".", "0">>, <<"4", ".", "0", "0">>, <<>> }

InitCorrectness ==
    /\ IoIdle
    /\ pc = "start"
    /\ StepIdle
    /\ AnalyzerIdle
    /\ EvalIdle
    /\ MainIdle
    /\ response \in CorrectnessTexts
    /\ correct_answer \in Answers
    /\ steps = <<>>
    /\ is_correct = FALSE
    /\ matched = None

CallCheckCorrectness ==
    /\ pc = "start"
    /\ is_correct' = CheckCorrectness(response, correct_answer)
    /\ pc' = "done"
    /\ UNCHANGED <<response, correct_answer, steps, matched, evalVars, mainVars, stepVars, analyzerVars, ioVars>>

NextCorrectness == CallCheckCorrectness

SpecCorrectness == InitCorrectness /\ [][NextCorrectness]_vars

----------------------------------------------------------------------------
(* SpecAnswer: _extract_answer applied to a response.                      *)

MaxAnswerChunks == 4

AnswerChunks ==
    { <<"3">>, <<"4">>, <<".">>, <<" ">>, <<"\n">>, <<"x">>,
      <<"Answer", ":">>, <<"solution", " ">>, <<"result", ":">> }

AnswerTexts == Texts(AnswerChunks, MaxAnswerChunks)

InitAnswer ==
    /\ IoIdle
    /\ pc = "start"
    /\ StepIdle
    /\ AnalyzerIdle
    /\ EvalIdle
    /\ MainIdle
    /\ response \in AnswerTexts
    /\ correct_answer = <<>>
    /\ steps = <<>>
    /\ is_correct = FALSE
    /\ matched = None

CallExtractAnswer ==
    /\ pc = "start"
    /\ matched' = ExtractAnswer(response)
    /\ pc' = "done"
    /\ UNCHANGED <<response, correct_answer, steps, is_correct, evalVars, mainVars, stepVars, analyzerVars, ioVars>>

NextAnswer == CallExtractAnswer

SpecAnswer == InitAnswer /\ [][NextAnswer]_vars

----------------------------------------------------------------------------
(* SpecEval: evaluate_responses applied to a problem and a responses dict. *)

MaxEvalChunks == 3

EvalChunks == { <<"3">>, <<"4">>, <<"\n">>, <<"Answer", ":">>, <<"because">> }

EvalTexts == Texts(EvalChunks, MaxEvalChunks)

\* The model names of the evaluator's tests.
EvalNames == {"model1", "model2"}

\* The values a second response of the dict is drawn from.
SampleResponses ==
    { NoneValue, OtherValue, Dict(None, "algebra"), Dict(<<"4">>, NoCategory) }

\* The responses dicts: at most two models, in either order, one response
\* of them drawn from every text and the other from SampleResponses.
NamePairs == {np \in EvalNames \X EvalNames : np[1] # np[2]}

ResponseItems ==
    { <<>> }
    \cup { << <<n, v>> >> : n \in EvalNames,
                            v \in {Str(t) : t \in EvalTexts} \cup SampleResponses }
    \cup { << <<np[1], v1>>, <<np[2], v2>> >> :
              np \in NamePairs,
              v1 \in {Str(t) : t \in EvalTexts}, v2 \in SampleResponses }
    \cup { << <<np[1], v1>>, <<np[2], v2>> >> :
              np \in NamePairs,
              v1 \in SampleResponses,
              v2 \in {Str(t) : t \in EvalTexts} \cup SampleResponses }

\* The problems: with or without a correct answer, with or without the
\* model_categories that evaluate_problems adds.
EvalProblems ==
    { [problem_id |-> "p1", question |-> "q1", correct_answer |-> <<"4">>],
      [problem_id |-> "p1", question |-> "q1", correct_answer |-> <<"3">>,
       model_categories |-> [n \in EvalNames |-> "geometry"]],
      [problem_id |-> "p1", question |-> "q1", correct_answer |-> <<"4">>,
       model_categories |-> EmptyDict],
      [question |-> "q1"] }

InitEval ==
    /\ IoIdle
    /\ pc = "start"
    /\ StepIdle
    /\ AnalyzerIdle
    /\ TextIdle
    /\ problem \in EvalProblems
    /\ responses \in ResponseItems
    /\ results = EmptyDict
    /\ raised = FALSE
    /\ calls = 0
    /\ seen = NoObservation
    /\ MainIdle

CallEvaluateResponses ==
    /\ pc = "start"
    /\ LET out == EvaluateResponses(problem, responses)
           after == ArgumentsAfter(problem, responses)
       IN  /\ raised' = out.raised
           /\ results' = IF out.raised THEN results ELSE out.value
           /\ problem' = after.problem
           /\ responses' = after.responses
    /\ pc' = "done"
    /\ UNCHANGED <<textVars, calls, seen, mainVars, stepVars, analyzerVars, ioVars>>

NextEval == CallEvaluateResponses

SpecEval == InitEval /\ [][NextEval]_vars

----------------------------------------------------------------------------
(* Several evaluate_responses calls on one ProblemEvaluator.  The          *)
(* evaluator's only fields are its logger and step_patterns, both set in   *)
(* __init__ and assigned nowhere else, so a call starts from the same      *)
(* evaluator whatever ran before it.  seen keeps one record of one call:   *)
(* the response text, the correct answer and the verdict.                  *)

MaxCalls == 2

RepeatTexts == { <<"4">>, <<"3", "\n", "4">> }

RepeatResponses ==
    { NoneValue, Dict(<<"4">>, "algebra") } \cup {Str(t) : t \in RepeatTexts}

\* One model, or two in either order, the second answering with a text.
RepeatItems ==
    { << <<n, v>> >> : n \in EvalNames, v \in RepeatResponses }
    \cup { << <<np[1], v1>>, <<np[2], Str(t)>> >> :
              np \in NamePairs, v1 \in RepeatResponses, t \in RepeatTexts }

RepeatProblems ==
    { [problem_id |-> "p1", question |-> "q1", correct_answer |-> <<"4">>],
      [problem_id |-> "p2", question |-> "q2", correct_answer |-> <<"4">>,
       model_categories |-> [n \in EvalNames |-> "geometry"]],
      [problem_id |-> "p3", question |-> "q3", correct_answer |-> <<"3">>] }

\* What a call's result shows of its records.
Observations(call, value) ==
    { [call |-> call,
       text |-> value.model_evaluations[n].response,
       answer |-> value.correct_answer,
       is_correct |-> value.model_evaluations[n].correctness.is_correct] :
      n \in DOMAIN value.model_evaluations }

InitRepeat ==
    /\ IoIdle
    /\ pc = "ready"
    /\ StepIdle
    /\ AnalyzerIdle
    /\ TextIdle
    /\ EvalIdle
    /\ MainIdle

CallEvaluateResponsesAgain ==
    /\ pc = "ready"
    /\ calls < MaxCalls
    /\ \E prob \in RepeatProblems, items \in RepeatItems :
          LET out == EvaluateResponses(prob, items)
              after == ArgumentsAfter(prob, items)
          IN  /\ problem' = after.problem
              /\ responses' = after.responses
              /\ raised' = out.raised
              /\ results' = IF out.raised THEN results ELSE out.value
              /\ seen' \in IF seen = NoObservation /\ ~out.raised
                           THEN {seen} \cup Observations(calls + 1, out.value)
                           ELSE {seen}
    /\ calls' = calls + 1
    /\ UNCHANGED <<pc, textVars, mainVars, stepVars, analyzerVars, ioVars>>

NextRepeat == CallEvaluateResponsesAgain

SpecRepeat == InitRepeat /\ [][NextRepeat]_vars

----------------------------------------------------------------------------
(* MathProblemEvaluator.evaluate_problems.  Each generate_response call    *)
(* is a request to an outside service and is one step; what it does is     *)
(* the model's to choose.  The dicts the three models build hold a str     *)
(* under 'solution'.  Writing the result files is taken to succeed.        *)

MaxProblems == 2

\* self.models, in the order __init__ inserts them.
ModelNames == <<"chatgpt", "gemini", "perplexity">>

\* generate_response raised.
Raises == [kind |-> "raises"]

\* What a generate_response call can do: fail in one of three ways, or
\* return what the model's class builds, a str for ChatGPTModel and a dict
\* for GeminiModel and PerplexityModel.
Outcomes(model_name) ==
    { Raises, NoneValue, OtherValue }
    \cup IF model_name = "chatgpt"
         THEN { Str(<<"because", "\n", "Answer", ":", "4">>) }
         ELSE { Dict(<<"3">>, "algebra") }

\* Outcomes after which the model has given no response at all.
IsFailure(outcome) == outcome.kind \in {"raises", "none", "other"}

\* Lines 78-90 without the isinstance(response, str) test of the else branch.
StoredResponseUnfiltered(outcome) ==
    CASE outcome.kind = "raises" -> NoneValue
      [] outcome.kind = "dict" ->
            IF outcome.solution = None THEN NoneValue ELSE Str(outcome.solution)
      [] OTHER -> outcome

\* Lines 78-90: what model_responses[model_name] is set to.
StoredResponse(outcome) ==
    CASE outcome.kind = "raises" -> NoneValue
      [] outcome.kind = "dict" ->
            IF outcome.solution = None THEN NoneValue ELSE Str(outcome.solution)
      [] outcome.kind = "str" -> outcome
      [] OTHER -> NoneValue

\* Lines 78-90: what model_categories[model_name] is set to.
StoredCategory(outcome) ==
    IF outcome.kind = "dict" THEN outcome.category ELSE NoCategory

\* The problems of a data file that DataLoader accepted.
MainProblems ==
    { [problem_id |-> "p1", question |-> "q1", correct_answer |-> <<"4">>],
      [problem_id |-> "p2", question |-> "q2", correct_answer |-> <<"3">>] }

ProblemLists == UNION {[1..k -> MainProblems] : k \in 0..MaxProblems}

InitMain ==
    /\ IoIdle
    /\ pc = "loop"
    /\ StepIdle
    /\ AnalyzerIdle
    /\ TextIdle
    /\ EvalIdle
    /\ problems \in ProblemLists
    /\ index = 1
    /\ model_responses = <<>>
    /\ model_categories = EmptyDict
    /\ all_results = EmptyDict
    /\ saved = EmptyDict
    /\ failed = {}

\* Lines 71-77: the next problem of the list.
NextProblem ==
    /\ pc = "loop"
    /\ index <= Len(problems)
    /\ model_responses' = <<>>
    /\ model_categories' = EmptyDict
    /\ failed' = {}
    /\ pc' = "models"
    /\ UNCHANGED <<textVars, evalVars, problems, index, all_results, saved, stepVars, analyzerVars, ioVars>>

\* Lines 78-90: one pass of the loop over self.models.
GenerateResponse ==
    /\ pc = "models"
    /\ Len(model_responses) < Len(ModelNames)
    /\ LET model_name == ModelNames[Len(model_responses) + 1]
       IN  \E outcome \in Outcomes(model_name) :
              /\ model_responses' =
                     Append(model_responses, <<model_name, StoredResponse(outcome)>>)
              /\ model_categories' =
                     Put(model_categories, model_name, StoredCategory(outcome))
              /\ failed' = IF IsFailure(outcome)
                           THEN failed \cup {model_name} ELSE failed
    /\ UNCHANGED <<pc, textVars, evalVars, problems, index, all_results, saved, stepVars, analyzerVars, ioVars>>

\* Lines 91-97: the problem gets its model_categories, the responses are
\* evaluated, the evaluation is stored and written to its file.  An
\* exception of evaluate_responses leaves evaluate_problems.
EvaluateProblem ==
    /\ pc = "models"
    /\ Len(model_responses) = Len(ModelNames)
    /\ LET with_categories ==
               Put(problems[index], "model_categories", model_categories)
           out == EvaluateResponses(with_categories, model_responses)
           after == ArgumentsAfter(with_categories, model_responses)
           problem_id == problems[index].problem_id
       IN  /\ problems' = [problems EXCEPT ![index] = after.problem]
           /\ IF out.raised
              THEN /\ pc' = "aborted"
                   /\ UNCHANGED <<index, all_results, saved>>
              ELSE /\ pc' = "loop"
                   /\ index' = index + 1
                   /\ all_results' = Put(all_results, problem_id, out.value)
                   /\ saved' = Put(saved, problem_id, out.value)
    /\ UNCHANGED <<textVars, evalVars, model_responses, model_categories, failed, stepVars, analyzerVars, ioVars>>

\* Line 98: return results.
ReturnResults ==
    /\ pc = "loop"
    /\ index > Len(problems)
    /\ pc' = "returned"
    /\ UNCHANGED <<textVars, evalVars, mainVars, stepVars, analyzerVars, ioVars>>

NextMain == NextProblem \/ GenerateResponse \/ EvaluateProblem \/ ReturnResults

SpecMain == InitMain /\ [][NextMain]_vars

----------------------------------------------------------------------------
(* _check_step_completeness on its own, on step sequences put together     *)
(* from at most MaxSequenceChunks runs of step types.                      *)

MaxSequenceChunks == 4

SequenceChunks ==
    { <<"explanation", "substitution", "calculation">>,
      <<"simplification", "verification">>,
      <<"conclusion">>,
      <<"equation">>,
      <<"verification", "simplification", "calculation", "substitution">>,
      <<"explanation">> }

StepSequences == Texts(SequenceChunks, MaxSequenceChunks)

InitCompleteness ==
    /\ IoIdle
    /\ pc = "start"
    /\ TextIdle
    /\ EvalIdle
    /\ MainIdle
    /\ AnalyzerIdle
    /\ sequence \in StepSequences
    /\ completeness = FALSE
    /\ steps_analysis = EmptyDict

CallCheckStepCompleteness ==
    /\ pc = "start"
    /\ completeness' = CheckStepCompleteness(sequence)
    /\ pc' = "done"
    /\ UNCHANGED <<textVars, evalVars, mainVars, sequence, steps_analysis, analyzerVars, ioVars>>

NextCompleteness == CallCheckStepCompleteness

SpecCompleteness == InitCompleteness /\ [][NextCompleteness]_vars

----------------------------------------------------------------------------
(* analyze on the results of at most MaxAnalyzed problems.  Every          *)
(* problem_results is what evaluate_responses returns for one of the       *)
(* problems and one of the responses dicts below, so the records are       *)
(* records the evaluator builds; "model1" is a model other than the three  *)
(* of main.py.                                                             *)

MaxAnalyzed == 2

AnalyzedProblems ==
    { [problem_id |-> "p1", question |-> "q1", correct_answer |-> <<"4">>],
      [problem_id |-> "p2", question |-> "q2", correct_answer |-> <<"3">>],
      [problem_id |-> "p3", question |-> "q3", correct_answer |-> <<"4">>] }

AnalyzedText == <<"because", "\n", "4">>

AnalyzedResponses ==
    { <<>>,
      << <<"chatgpt", Str(AnalyzedText)>> >>,
      << <<"chatgpt", NoneValue>> >>,
      << <<"gemini", Dict(AnalyzedText, "algebra")>> >>,
      << <<"perplexity", Dict(AnalyzedText, "")>> >>,
      << <<"chatgpt", Str(AnalyzedText)>>, <<"gemini", NoneValue>> >>,
      << <<"gemini", NoneValue>>, <<"chatgpt", Str(AnalyzedText)>> >>,
      << <<"perplexity", Dict(AnalyzedText, "algebra")>>, <<"chatgpt", NoneValue>> >>,
      << <<"model1", Str(AnalyzedText)>> >>,
      << <<"chatgpt", Str(AnalyzedText)>>, <<"model1", NoneValue>> >> }

\* What evaluate_responses returns for the problem and the responses, its
\* model_evaluations as items in the order they were stored.
ProblemResults(prob, items) ==
    LET out == EvaluateResponses(prob, items).value
    IN  [problem_id |-> out.problem_id,
         question |-> out.question,
         correct_answer |-> out.correct_answer,
         model_evaluations |->
             [k \in 1..Len(items) |->
                 <<items[k][1], out.model_evaluations[items[k][1]]>>]]

\* The results of k different problems, in any order.
ResultsOf(k) ==
    { [j \in 1..k |-> <<ps[j].problem_id, ProblemResults(ps[j], rs[j])>>] :
        ps \in {q \in [1..k -> AnalyzedProblems] :
                   \A i \in 1..k, j \in 1..k : i # j => q[i] # q[j]},
        rs \in [1..k -> AnalyzedResponses] }

AnalyzedResults == UNION {ResultsOf(k) : k \in 0..MaxAnalyzed}

InitAnalyze ==
    /\ IoIdle
    /\ pc = "start"
    /\ TextIdle
    /\ EvalIdle
    /\ MainIdle
    /\ StepIdle
    /\ analyzed \in AnalyzedResults
    /\ analysis = EmptyDict
    /\ analyze_raised = FALSE
    /\ loaded = <<>>
    /\ metrics = EmptyDict
    /\ metrics_raised = FALSE

CallAnalyze ==
    /\ pc = "start"
    /\ LET out == Analyze(analyzed)
       IN  /\ analyze_raised' = out.raised
           /\ analysis' = IF out.raised THEN analysis ELSE out.value
    /\ pc' = "done"
    /\ UNCHANGED <<textVars, evalVars, mainVars, stepVars,
                   analyzed, loaded, metrics, metrics_raised, ioVars>>

NextAnalyze == CallAnalyze

SpecAnalyze == InitAnalyze /\ [][NextAnalyze]_vars

----------------------------------------------------------------------------
(* calculate_metrics on a results file of at most MaxLoaded problems, in   *)
(* the shapes of the analyzer's tests: with and without a 'category' next  *)
(* to the model records, records with and without steps, error_type and    *)
(* response_time.  An error_type of None (JSON null) is "None".            *)

MaxLoaded == 2

FullCorrect ==
    Data([is_correct |-> TRUE, steps |-> <<"Step 1", "Step 2">>,
          error_type |-> "None", response_time |-> 15])

FullWrong ==
    Data([is_correct |-> FALSE, steps |-> <<"Step 1">>,
          error_type |-> "calculation_error", response_time |-> 20])

LoadedProblemData ==
    { <<>>,
      << <<"model1", FullCorrect>>, <<"model2", FullWrong>> >>,
      << <<"model2", FullCorrect>>, <<"model1", Data([is_correct |-> FALSE])>> >>,
      << <<"model1", Data([is_correct |-> TRUE])>> >>,
      << <<"model1", Data([is_correct |-> FALSE, error_type |-> "None",
                           response_time |-> 10])>> >>,
      << <<"category", Text("geometry")>>, <<"model1", Data([is_correct |-> TRUE])>> >>,
      << <<"category", Text("algebra")>>,
         <<"model1", FullCorrect>>, <<"model2", FullWrong>> >> }

LoadedIds == {"problem1", "problem2", "problem3"}

LoadedOf(k) ==
    { [j \in 1..k |-> <<ids[j], ds[j]>>] :
        ids \in {q \in [1..k -> LoadedIds] :
                    \A i \in 1..k, j \in 1..k : i # j => q[i] # q[j]},
        ds \in [1..k -> LoadedProblemData] }

LoadedResults == UNION {LoadedOf(k) : k \in 0..MaxLoaded}

InitMetrics ==
    /\ IoIdle
    /\ pc = "start"
    /\ TextIdle
    /\ EvalIdle
    /\ MainIdle
    /\ StepIdle
    /\ analyzed = <<>>
    /\ analysis = EmptyDict
    /\ analyze_raised = FALSE
    /\ loaded \in LoadedResults
    /\ metrics = EmptyDict
    /\ metrics_raised = FALSE

CallCalculateMetrics ==
    /\ pc = "start"
    /\ LET out == CalculateMetrics(loaded)
       IN  /\ metrics_raised' = out.raised
           /\ metrics' = IF out.raised THEN metrics ELSE out.value
    /\ pc' = "done"
    /\ UNCHANGED <<textVars, evalVars, mainVars, stepVars,
                   analyzed, analysis, analyze_raised, loaded, ioVars>>

NextMetrics == CallCalculateMetrics

SpecMetrics == InitMetrics /\ [][NextMetrics]_vars

----------------------------------------------------------------------------
(* _extract_steps and then _analyze_steps on its step list, as             *)
(* evaluate_responses calls them, on responses put together from at most   *)
(* MaxAnalysisChunks runs of lines: lines of the six expected step types,  *)
(* an equation, a line that two patterns match, and a blank line followed  *)
(* by a line no pattern matches.                                           *)

MaxAnalysisChunks == 4

AnalysisChunks ==
    { <<"Because", "\n", "substituting", "\n", "3", "+", "4", "=", "4", "\n">>,
      <<"simplifying", "\n", "checking", "\n">>,
      <<"we get", "\n">>,
      <<"x", " ", "=", "4", "\n">>,
      <<"therefore", "\n">>,
      <<" ", "\n", "4", "\n">> }

AnalysisTexts == Texts(AnalysisChunks, MaxAnalysisChunks)

InitStepAnalysis ==
    /\ pc = "start"
    /\ IoIdle
    /\ StepIdle
    /\ AnalyzerIdle
    /\ EvalIdle
    /\ MainIdle
    /\ response \in AnalysisTexts
    /\ correct_answer = <<>>
    /\ steps = <<>>
    /\ is_correct = FALSE
    /\ matched = None

CallAnalyzeSteps ==
    /\ pc = "done"
    /\ steps_analysis' = AnalyzeSteps(steps)
    /\ pc' = "analyzed"
    /\ UNCHANGED <<textVars, evalVars, mainVars, sequence, completeness, analyzerVars, ioVars>>

NextStepAnalysis == CallExtractSteps \/ CallAnalyzeSteps

SpecStepAnalysis == InitStepAnalysis /\ [][NextStepAnalysis]_vars

----------------------------------------------------------------------------
(* The metrics analyzer from its construction on a results file to the     *)
(* metrics: ResultAnalyzer(results_file), then calculate_metrics().        *)

ResultsFiles == {MissingFile, CorruptFile} \cup {JsonFile(items) : items \in LoadedResults}

InitLoad ==
    /\ pc = "new"
    /\ TextIdle
    /\ EvalIdle
    /\ MainIdle
    /\ StepIdle
    /\ analyzed = <<>>
    /\ analysis = EmptyDict
    /\ analyze_raised = FALSE
    /\ loaded = <<>>
    /\ metrics = EmptyDict
    /\ metrics_raised = FALSE
    /\ file \in ResultsFiles
    /\ load_raised = FALSE
    /\ LoaderIdle
    /\ ReportIdle
    /\ PipelineIdle

ConstructResultAnalyzer ==
    /\ pc = "new"
    /\ LET out == NewResultAnalyzer(file)
       IN  /\ load_raised' = out.raised
           /\ loaded' = IF out.raised THEN loaded ELSE out.value
           /\ pc' = IF out.raised THEN "failed" ELSE "start"
    /\ UNCHANGED <<textVars, evalVars, mainVars, stepVars,
                   analyzed, analysis, analyze_raised, metrics, metrics_raised, file,
                   loaderVars, reportVars, pipelineVars>>

NextLoad == ConstructResultAnalyzer \/ CallCalculateMetrics

SpecLoad == InitLoad /\ [][NextLoad]_vars

----------------------------------------------------------------------------
(* compare_correct_and_incorrect_models on the results evaluate_problems   *)
(* builds for at most MaxCompared problems: the responses of the three     *)
(* models of main.py in the order of its models dict, some right, some     *)
(* wrong with the same steps as a right one, some wrong with other steps,  *)
(* some absent.                                                            *)

MaxCompared == 2

ComparedProblems ==
    { [problem_id |-> "p1", question |-> "q1", correct_answer |-> <<"4">>],
      [problem_id |-> "p2", question |-> "q2", correct_answer |-> <<"3">>] }

ComparedResponses ==
    { << <<"chatgpt", c>>, <<"gemini", g>>, <<"perplexity", x>> >> :
        c \in { Str(<<"because", "\n", "4">>), Str(<<"because", "\n", "3">>),
                NoneValue },
        g \in { Dict(<<"Because", "\n", "we get", "\n", "4">>, "algebra"),
                Dict(<<"because", "\n", "3">>, NoCategory), NoneValue },
        x \in { Str(<<"3">>), NoneValue } }

ComparedOf(k) ==
    { [j \in 1..k |-> <<ps[j].problem_id, ProblemResults(ps[j], rs[j])>>] :
        ps \in {q \in [1..k -> ComparedProblems] :
                   \A i \in 1..k, j \in 1..k : i # j => q[i] # q[j]},
        rs \in [1..k -> ComparedResponses] }

ComparedResults == UNION {ComparedOf(k) : k \in 0..MaxCompared}

InitCompare ==
    /\ pc = "start"
    /\ TextIdle
    /\ EvalIdle
    /\ MainIdle
    /\ StepIdle
    /\ LoadIdle
    /\ LoaderIdle
    /\ PipelineIdle
    /\ analyzed \in ComparedResults
    /\ analysis = EmptyDict
    /\ analyze_raised = FALSE
    /\ loaded = <<>>
    /\ metrics = EmptyDict
    /\ metrics_raised = FALSE
    /\ comparison_report = EmptyDict

CallCompareCorrectAndIncorrectModels ==
    /\ pc = "start"
    /\ comparison_report' = CompareCorrectAndIncorrectModels(analyzed)
    /\ pc' = "done"
    /\ UNCHANGED <<textVars, evalVars, mainVars, stepVars, analyzerVars,
                   loadVars, loaderVars, pipelineVars>>

NextCompare == CallCompareCorrectAndIncorrectModels

SpecCompare == InitCompare /\ [][NextCompare]_vars

----------------------------------------------------------------------------
(* main(): the .env check, the evaluator, the problems, evaluate_problems  *)
(* step by step as above, analyze_results, the comparison report and its   *)
(* file, save_analysis.  Every exception ends main() in its except clause. *)
(* Building the evaluator and loading the problems can fail; writing a     *)
(* file is taken to succeed.  A sequential program goes on as long as it   *)
(* has a next step.                                                        *)

\* The ids of a problem list from index k on, each at its first occurrence.
RECURSIVE FirstIds(_, _, _)
FirstIds(problem_list, k, had) ==
    IF k > Len(problem_list) THEN <<>>
    ELSE LET id == problem_list[k].problem_id
         IN  IF id \in had THEN FirstIds(problem_list, k + 1, had)
             ELSE <<id>> \o FirstIds(problem_list, k + 1, had \cup {id})

\* The results dict of evaluate_problems as its items in insertion order,
\* the model_evaluations of each in the order of self.models.
ResultItems(problem_list, by_id) ==
    LET ids == FirstIds(problem_list, 1, {})
    IN  [k \in 1..Len(ids) |->
            <<ids[k],
              [problem_id |-> by_id[ids[k]].problem_id,
               question |-> by_id[ids[k]].question,
               correct_answer |-> by_id[ids[k]].correct_answer,
               model_evaluations |->
                   [j \in 1..Len(ModelNames) |->
                       <<ModelNames[j],
                         by_id[ids[k]].model_evaluations[ModelNames[j]]>>]]>>]

\* _generate_visualizations: _plot_step_analysis divides by the number of
\* step types and _plot_category_performance by the number of models of
\* the categories; either raises ZeroDivisionError when there is none.
VisualizationsRaise(result) ==
    \/ \A m \in DOMAIN result.step_analysis : result.step_analysis[m] = EmptyDict
    \/ result.category_performance = EmptyDict

InitPipeline ==
    /\ pc = "main"
    /\ TextIdle
    /\ EvalIdle
    /\ MainIdle
    /\ StepIdle
    /\ AnalyzerIdle
    /\ LoadIdle
    /\ LoaderIdle
    /\ ReportIdle
    /\ env_present \in BOOLEAN
    /\ written = EmptyDict

PipelineFrame == <<textVars, evalVars, stepVars, loadVars, loaderVars>>

\* Lines 127-131: without a .env file the template is written and main()
\* returns.
CheckEnv ==
    /\ pc = "main"
    /\ IF env_present
       THEN /\ pc' = "init"
            /\ UNCHANGED written
       ELSE /\ pc' = "template"
            /\ written' = Put(written, ".env", "template")
    /\ UNCHANGED <<PipelineFrame, mainVars, analyzerVars, reportVars, env_present>>

\* Line 133: MathProblemEvaluator().
ConstructEvaluator ==
    /\ pc = "init"
    /\ pc' \in {"load", "error"}
    /\ UNCHANGED <<PipelineFrame, mainVars, analyzerVars, reportVars, pipelineVars>>

\* Lines 143-144: get_random_problems.
GetRandomProblems ==
    /\ pc = "load"
    /\ \/ /\ problems' \in ProblemLists
          /\ index' = 1
          /\ pc' = "loop"
       \/ /\ pc' = "error"
          /\ UNCHANGED <<problems, index>>
    /\ UNCHANGED <<PipelineFrame, model_responses, model_categories, all_results,
                   saved, failed, analyzerVars, reportVars, pipelineVars>>

\* Line 147: analysis = evaluator.analyze_results(results).
AnalyzeResults ==
    /\ pc = "returned"
    /\ LET items == ResultItems(problems, all_results)
           out == Analyze(items)
       IN  /\ analyzed' = items
           /\ analyze_raised' = out.raised
           /\ analysis' = IF out.raised THEN analysis ELSE out.value
           /\ pc' = IF out.raised THEN "error" ELSE "analyzed"
    /\ UNCHANGED <<PipelineFrame, mainVars, loaded, metrics, metrics_raised,
                   reportVars, pipelineVars>>

\* Line 150: the comparison report.
CompareModelsOfResults ==
    /\ pc = "analyzed"
    /\ comparison_report' = CompareCorrectAndIncorrectModels(analyzed)
    /\ pc' = "compared"
    /\ UNCHANGED <<PipelineFrame, mainVars, analyzerVars, pipelineVars>>

\* Lines 151-154 ending in the except clause: json.dump raises on the report.
WriteComparisonReportFails ==
    /\ pc = "compared"
    /\ pc' = "error"
    /\ UNCHANGED <<PipelineFrame, mainVars, analyzerVars, reportVars, pipelineVars>>

\* Lines 151-154: comparison_report.json is written.
WriteComparisonReport ==
    /\ pc = "compared"
    /\ written' = Put(written, "comparison_report.json", comparison_report)
    /\ pc' = "written"
    /\ UNCHANGED <<PipelineFrame, mainVars, analyzerVars, reportVars, env_present>>

\* Line 158: save_analysis writes final_analysis.json and then draws the
\* plots; an exception of the plots is raised again and ends main().
SaveAnalysis ==
    /\ pc = "written"
    /\ written' = Put(written, "final_analysis.json", analysis)
    /\ pc' = IF VisualizationsRaise(analysis) THEN "error" ELSE "complete"
    /\ UNCHANGED <<PipelineFrame, mainVars, analyzerVars, reportVars, env_present>>

NextPipeline ==
    \/ CheckEnv \/ ConstructEvaluator \/ GetRandomProblems
    \/ NextProblem \/ GenerateResponse \/ EvaluateProblem \/ ReturnResults
    \/ AnalyzeResults \/ CompareModelsOfResults \/ WriteComparisonReport
    \/ SaveAnalysis

\* main() runs on one thread that nothing suspends: once the analysis has
\* been returned, each of the statements that follow it is eventually run.
SpecPipeline ==
    /\ InitPipeline
    /\ [][NextPipeline]_vars
    /\ WF_vars(CompareModelsOfResults)
    /\ WF_vars(WriteComparisonReport)
    /\ WF_vars(SaveAnalysis)

----------------------------------------------------------------------------
(* A data.DataLoader on one path and one file, its four methods called in  *)
(* any order and any number of times.  The file holds at most MaxRows      *)
(* records.                                                                *)

MaxRows == 2

LoaderPaths ==
    { <<"sample", ".csv">>, <<"sample", ".json">>,
      <<"invalid", ".txt">>, <<"sample", ".CSV">> }

LoaderRecords ==
    { [problem_text |-> Str(<<"Problem 1">>), answer |-> Str(<<"Answer 1">>)],
      [problem_text |-> Str(<<"Problem 2">>), answer |-> Int(4)],
      [problem_text |-> Str(<<"Problem 3">>), answer |-> NaN] }

LoaderFiles ==
    {NoTable, BadTable, Table(<< [other_column |-> Str(<<"Value 1">>)] >>)}
    \cup {Table(records) :
              records \in UNION {[1..k -> LoaderRecords] : k \in 0..MaxRows}}

InitLoader ==
    /\ pc = "ready"
    /\ TextIdle
    /\ EvalIdle
    /\ MainIdle
    /\ StepIdle
    /\ AnalyzerIdle
    /\ LoadIdle
    /\ ReportIdle
    /\ PipelineIdle
    /\ data_path \in LoaderPaths
    /\ disk \in LoaderFiles
    /\ data = NoneValue
    /\ last_call = NoCall
    /\ load_succeeded = FALSE

LoaderFrame ==
    <<pc, textVars, evalVars, mainVars, stepVars, analyzerVars, loadVars, reportVars,
      pipelineVars>>

CallLoadData ==
    /\ pc = "ready"
    /\ LET out == LoadData(data_path, disk, data)
       IN  /\ data' = out.data
           /\ last_call' = [call |-> "load_data", end |-> out.end]
           /\ load_succeeded' = (load_succeeded \/ out.end.raised = "none")
    /\ UNCHANGED <<LoaderFrame, data_path, disk>>

CallPreprocessData ==
    /\ pc = "ready"
    /\ LET out == PreprocessData(data)
       IN  /\ data' = out.data
           /\ last_call' = [call |-> "preprocess_data", end |-> out.end]
    /\ UNCHANGED <<LoaderFrame, data_path, disk, load_succeeded>>

CallGetProblem ==
    /\ pc = "ready"
    /\ \E i \in 0..MaxRows :
           last_call' = [call |-> "get_problem", end |-> GetProblem(data, i)]
    /\ UNCHANGED <<LoaderFrame, data_path, disk, data, load_succeeded>>

CallGetAllProblems ==
    /\ pc = "ready"
    /\ last_call' = [call |-> "get_all_problems", end |-> GetAllProblems(data)]
    /\ UNCHANGED <<LoaderFrame, data_path, disk, data, load_succeeded>>

NextLoader ==
    CallLoadData \/ CallPreprocessData \/ CallGetProblem \/ CallGetAllProblems

SpecLoader == InitLoader /\ [][NextLoader]_vars

----------------------------------------------------------------------------
(* Claims about the pure functions.                                        *)

\* The rule-declaration order the specification names.
RuleOrder ==
    <<"calculation", "equation", "formula", "explanation",
      "substitution", "simplification", "verification", "conclusion">>

\* The stripped lines of the response, in order.
StrippedLines(t) ==
    LET lines == SplitLines(t) IN [n \in 1..Len(lines) |-> Strip(lines[n])]

\* The indices in RuleOrder of the rules whose pattern matches the line.
RulesMatching(line) ==
    {k \in 1..Len(RuleOrder) : PatternMatches(RuleOrder[k], line)}

\* The lines of the response that are not blank and match some rule.
EmittingLines(t) ==
    {n \in 1..Len(StrippedLines(t)) :
        StrippedLines(t)[n] # <<>> /\ RulesMatching(StrippedLines(t)[n]) # {}}

\* The j-th smallest element of the set S of numbers.
Nth(S, j) == CHOOSE n \in S : Cardinality({m \in S : m <= n}) = j

\* C1: the steps _extract_steps returns are, in line order, exactly one step
\* for each non-blank line that matches some rule, of the first matching
\* category in rule-declaration order and with the stripped line as content;
\* a non-blank line that matches no rule contributes no step.
C1_FirstMatchingCategoryPerLine ==
    pc = "done" =>
        /\ Len(steps) = Cardinality(EmittingLines(response))
        /\ \A j \in 1..Len(steps) :
              LET line == StrippedLines(response)[Nth(EmittingLines(response), j)]
              IN  steps[j] = [type |-> RuleOrder[Min(RulesMatching(line))],
                              content |-> line]

\* C1's case: a response with a line that matches two rules and a non-blank
\* line that matches none, from which a step was extracted.
C1_Witness ==
    /\ pc = "done"
    /\ Len(steps) >= 1
    /\ \E n \in 1..Len(StrippedLines(response)) :
          Cardinality(RulesMatching(StrippedLines(response)[n])) >= 2
    /\ \E n \in 1..Len(StrippedLines(response)) :
          /\ StrippedLines(response)[n] # <<>>
          /\ RulesMatching(StrippedLines(response)[n]) = {}

\* AnswerNormalizer of the specification (section 4.3): keep the digits and
\* decimal points; when the rest parses as a float, its canonical form (the
\* integer part without leading zeros, a point, the fraction without trailing
\* zeros), else the rest unchanged.
RECURSIVE DropLeadingZeros(_)
DropLeadingZeros(d) ==
    IF Len(d) > 1 /\ Head(d) = "0" THEN DropLeadingZeros(Tail(d)) ELSE d

RECURSIVE DropTrailingZeros(_)
DropTrailingZeros(d) ==
    IF Len(d) > 1 /\ d[Len(d)] = "0"
    THEN DropTrailingZeros(SubSeq(d, 1, Len(d) - 1)) ELSE d

IsNumericChar(c) == c \in Digits \cup {"."}

AnswerNormalizer(a) ==
    LET s == SelectSeq(a, IsNumericChar)
        points == {i \in 1..Len(s) : s[i] = "."}
    IN  IF Cardinality(points) > 1 \/ Len(s) = Cardinality(points) THEN s
        ELSE LET p == IF points = {} THEN Len(s) + 1 ELSE Min(points)
                 int == IF p = 1 THEN <<"0">> ELSE SubSeq(s, 1, p - 1)
                 frac == IF p >= Len(s) THEN <<"0">> ELSE SubSeq(s, p + 1, Len(s))
             IN  DropLeadingZeros(int) \o <<".">> \o DropTrailingZeros(frac)

\* C2: _check_correctness is true exactly when the normalized ground truth
\* is one of the numbers of the response, compared in normalized form.
C2_NormalizedMembership ==
    pc = "done" =>
        (is_correct <=>
            \E k \in 1..Len(FindNumbers(response, 1)) :
                AnswerNormalizer(FindNumbers(response, 1)[k])
                    = AnswerNormalizer(correct_answer))

\* C8: ground truths that denote the same number give the same verdict on
\* every response, and normalizing a normalized answer changes nothing.
C8_SameVerdictForEqualNumbers ==
    pc = "done" =>
        /\ \A a \in Answers :
              AnswerNormalizer(a) = AnswerNormalizer(correct_answer)
                  => CheckCorrectness(response, a) = is_correct
        /\ AnswerNormalizer(AnswerNormalizer(correct_answer))
              = AnswerNormalizer(correct_answer)

\* A labelled number starts at index i: a label word in any case, one or more
\* colons or white-space characters, a digit.
LabelledNumberAt(t, i) ==
    /\ Lower(At(t, i)) \in LabelWords
    /\ \E d \in (i + 2)..Len(t) :
          /\ t[d] \in Digits
          /\ \A s \in (i + 1)..(d - 1) : t[s] \in {":", " ", "\n"}

LabelledNumbers(t) == {i \in 1..Len(t) : LabelledNumberAt(t, i)}

\* The number of the labelled number that starts at index i.
NumberAfterLabel(t, i) ==
    LET d == Min({k \in (i + 1)..Len(t) : t[k] \in Digits})
        e == Min({k \in d..(Len(t) + 1) : At(t, k) \notin Digits})
    IN  SubSeq(t, d, e - 1)

\* A bare number starts at index i: a run of digits followed, after optional
\* white space, by the end of the text, a period or a newline.
BareNumberAt(t, i) ==
    /\ At(t, i) \in Digits
    /\ At(t, i - 1) \notin Digits
    /\ \E k \in i..(Len(t) + 1) :
          /\ \A s \in i..(k - 1) : t[s] \in Digits \cup {" ", "\n"}
          /\ \A s1 \in i..(k - 1), s2 \in i..(k - 1) :
                (s1 < s2 /\ t[s2] \in Digits) => t[s1] \in Digits
          /\ k = Len(t) + 1 \/ At(t, k) \in {".", "\n"}

\* C9: when the response holds a labelled number the answer returned is the
\* number of a labelled number; a bare number is returned only when the
\* response holds no labelled number.
C9_LabelledBeforeBare ==
    pc = "done" =>
        IF LabelledNumbers(response) # {}
        THEN \E i \in LabelledNumbers(response) :
                 matched = NumberAfterLabel(response, i)
        ELSE \/ matched = None
             \/ \E i \in 1..Len(response) :
                    /\ BareNumberAt(response, i)
                    /\ matched = SubSeq(response, i, SkipWhile(response, i, Digits) - 1)

\* C9's case: a bare number comes before a labelled number with another
\* value, and the labelled one was returned.
C9_Witness ==
    /\ pc = "done"
    /\ \E i \in LabelledNumbers(response), b \in 1..Len(response) :
          /\ b < i
          /\ BareNumberAt(response, b)
          /\ matched = NumberAfterLabel(response, i)
          /\ matched # SubSeq(response, b, SkipWhile(response, b, Digits) - 1)

\* C10 as claimed: the answer returned is the number of the labelled number
\* that comes first in the text, whichever label it carries.
C10_FirstLabelledOccurrence ==
    (pc = "done" /\ LabelledNumbers(response) # {}) =>
        matched = NumberAfterLabel(response, Min(LabelledNumbers(response)))

\* The labels in the order _extract_answer tries them.
LabelPriority == <<"answer", "solution", "result">>

\* The labelled numbers of the response that carry the label.
LabelledWith(t, label) == {i \in LabelledNumbers(t) : Lower(t[i]) = label}

\* C10 amended: the answer returned is the number of the first occurrence of
\* the highest-priority label (answer, then solution, then result) that
\* carries a number in the response.
C10_FirstOccurrenceOfTopLabel ==
    (pc = "done" /\ LabelledNumbers(response) # {}) =>
        LET top == Min({k \in 1..3 : LabelledWith(response, LabelPriority[k]) # {}})
        IN  matched = NumberAfterLabel(response,
                          Min(LabelledWith(response, LabelPriority[top])))

\* C10's case: two labelled numbers with different labels and different
\* values, the first in the text not carrying the highest-priority label.
C10_Witness ==
    /\ pc = "done"
    /\ \E i \in LabelledNumbers(response), j \in LabelledNumbers(response) :
          /\ i < j
          /\ i = Min(LabelledNumbers(response))
          /\ Lower(response[i]) = "result"
          /\ Lower(response[j]) = "answer"
          /\ matched = NumberAfterLabel(response, j)
          /\ matched # NumberAfterLabel(response, i)

----------------------------------------------------------------------------
(* Claims about evaluate_responses.                                        *)

\* Every response of the dict is None, a str or a dict.
WellTyped(items) ==
    \A k \in 1..Len(items) : items[k][2].kind \in {"none", "str", "dict"}

\* The model names of the responses dict.
Names(items) == {items[k][1] : k \in 1..Len(items)}

\* The response text is absent: the response is None or a dict without a
\* solution.
TextAbsent(value) ==
    \/ value.kind = "none"
    \/ value.kind = "dict" /\ value.solution = None

\* C3: when the responses are None, strings or dicts, evaluate_responses does
\* not raise, and every model whose response text is absent has a record
\* with is_correct false, no matched answer, no steps, completeness false
\* and the no-response error marker.
C3_AbsentResponseRecord ==
    (pc = "done" /\ WellTyped(responses)) =>
        /\ ~raised
        /\ \A k \in 1..Len(responses) :
              TextAbsent(responses[k][2]) =>
                  /\ responses[k][1] \in DOMAIN results.model_evaluations
                  /\ LET rec == results.model_evaluations[responses[k][1]]
                     IN  /\ rec.correctness.is_correct = FALSE
                         /\ rec.correctness.matched_answer = None
                         /\ "error" \in DOMAIN rec.correctness
                         /\ rec.correctness.error = "No response received from model"
                         /\ rec.step_analysis.step_count = 0
                         /\ DOMAIN rec.step_analysis.step_types = {}
                         /\ rec.step_analysis.completeness = FALSE

\* C3's case: a None response and a dict without a solution, both evaluated.
C3_Witness ==
    /\ pc = "done"
    /\ ~raised
    /\ \E j \in 1..Len(responses), k \in 1..Len(responses) :
          /\ responses[j][2].kind = "none"
          /\ responses[k][2].kind = "dict"
          /\ responses[k][2].solution = None
          /\ "error" \in DOMAIN results.model_evaluations[responses[j][1]].correctness
          /\ "error" \in DOMAIN results.model_evaluations[responses[k][1]].correctness

\* C4: when the responses are None, strings or dicts, the models with a
\* record in model_evaluations are exactly the models of the responses dict.
C4_OneRecordPerModel ==
    (pc = "done" /\ WellTyped(responses)) =>
        /\ ~raised
        /\ DOMAIN results.model_evaluations = Names(responses)

\* C4's case: a str response and a response without text in one dict, two
\* records returned.
C4_Witness ==
    /\ pc = "done"
    /\ ~raised
    /\ \E j \in 1..Len(responses), k \in 1..Len(responses) :
          /\ responses[j][2].kind = "str"
          /\ TextAbsent(responses[k][2])
    /\ Cardinality(DOMAIN results.model_evaluations) = 2

\* C7 as claimed: a record with is_correct true has a matched_answer equal
\* to the problem's correct_answer.
C7_CorrectImpliesMatchedAnswer ==
    (pc = "done" /\ ~raised) =>
        \A m \in DOMAIN results.model_evaluations :
            results.model_evaluations[m].correctness.is_correct =>
                results.model_evaluations[m].correctness.matched_answer
                    = results.correct_answer

\* The answer occurs in the text as a whole number: a run of digits with no
\* digit or letter on either side.
OccursAsNumber(text, answer) ==
    /\ answer # <<>>
    /\ \A k \in 1..Len(answer) : answer[k] \in Digits
    /\ \E i \in 1..Len(text) :
          /\ i + Len(answer) - 1 <= Len(text)
          /\ SubSeq(text, i, i + Len(answer) - 1) = answer
          /\ ~IsWordChar(At(text, i - 1))
          /\ ~IsWordChar(At(text, i + Len(answer)))

\* C7 amended: a record with is_correct true has a response in which the
\* problem's correct_answer occurs as a whole number; when it occurs
\* nowhere in the response, is_correct is false.
C7_CorrectImpliesAnswerAmongNumbers ==
    (pc = "done" /\ ~raised) =>
        \A m \in DOMAIN results.model_evaluations :
            results.model_evaluations[m].correctness.is_correct =>
                /\ results.model_evaluations[m].response # None
                /\ OccursAsNumber(results.model_evaluations[m].response,
                                  results.correct_answer)

\* C7's case: a record with is_correct true whose matched_answer is another
\* number than the correct answer.
C7_Witness ==
    /\ pc = "done"
    /\ ~raised
    /\ \E m \in DOMAIN results.model_evaluations :
          /\ results.model_evaluations[m].correctness.is_correct
          /\ results.model_evaluations[m].correctness.matched_answer # None
          /\ results.model_evaluations[m].correctness.matched_answer
                # results.correct_answer

----------------------------------------------------------------------------
(* Claims about evaluate_problems and about repeated calls.                *)

\* The set of the configured model names.
ModelNameSet == {ModelNames[k] : k \in 1..Len(ModelNames)}

\* C5: evaluate_problems never leaves by an exception of a model; when it
\* returns, the results hold an evaluation of every problem of the list with
\* a record of each of the three configured models; and once a problem is
\* evaluated, every model whose generate_response raised, returned None or
\* returned a value that is neither a str nor a dict has a record without a
\* response whose is_correct is false.
C5_EveryPairHasARecord ==
    /\ pc # "aborted"
    /\ pc = "returned" =>
          \A i \in 1..Len(problems) :
             /\ problems[i].problem_id \in DOMAIN all_results
             /\ DOMAIN all_results[problems[i].problem_id].model_evaluations
                    = ModelNameSet
    /\ (pc = "loop" /\ index > 1) =>
          LET evaluation == all_results[problems[index - 1].problem_id]
          IN  /\ DOMAIN evaluation.model_evaluations = ModelNameSet
              /\ \A m \in failed :
                    /\ evaluation.model_evaluations[m].response = None
                    /\ evaluation.model_evaluations[m].correctness.is_correct = FALSE

\* C5 witness: evaluate_problems has returned from a list of two problems
\* the last of which had a model that failed and a model that answered.
C5_Witness ==
    /\ pc = "returned"
    /\ Len(problems) = 2
    /\ failed # {}
    /\ failed # ModelNameSet
    /\ DOMAIN all_results = {"p1", "p2"}

\* C6: whenever a record of the latest evaluate_responses call has the same
\* response text and the same correct answer as a record kept from this or
\* an earlier call on the same evaluator, the two have the same is_correct.
C6_VerdictDependsOnTextAndAnswerOnly ==
    (seen # NoObservation /\ ~raised) =>
        \A obs \in Observations(calls, results) :
            (obs.text = seen.text /\ obs.answer = seen.answer)
                => obs.is_correct = seen.is_correct

\* C6 witness: a record kept from the first call, of a single model, and a
\* record of the second call agree on text and answer and are both correct,
\* while the second call has another problem id, model_categories, two
\* models and the record under another model name at another position.
C6_Witness ==
    /\ calls = 2
    /\ seen # NoObservation
    /\ seen.call = 1
    /\ seen.text = <<"3", "\n", "4">>
    /\ seen.is_correct
    /\ problem.problem_id = "p2"
    /\ Len(responses) = 2
    /\ responses[1][2] = NoneValue
    /\ results.model_evaluations[responses[2][1]].response = seen.text
    /\ results.correct_answer = seen.answer

----------------------------------------------------------------------------
(* Further claims about _extract_answer.                                   *)

\* The text holds a digit.
HasDigit(t) == \E i \in 1..Len(t) : t[i] \in Digits

\* The last number of a text that holds a digit: its last run of digits.
LastNumber(t) ==
    LET e == CHOOSE i \in 1..Len(t) :
                 t[i] \in Digits /\ \A j \in (i + 1)..Len(t) : t[j] \notin Digits
        b == Min({i \in 1..e : \A j \in i..e : t[j] \in Digits})
    IN  SubSeq(t, b, e)

\* C11: when the response holds a number and no labelled number, the answer
\* returned is the last number of the text; so an answer is returned for
\* every response that holds a number.
C11_LastBareNumber ==
    (pc = "done" /\ LabelledNumbers(response) = {} /\ HasDigit(response)) =>
        matched = LastNumber(response)

\* C12: for a response that holds no digit, the empty one included, the
\* answer returned is None.
C12_NoDigitNoAnswer ==
    (pc = "done" /\ ~HasDigit(response)) => matched = None

\* C12's case: a response with a label and its separator but no digit was
\* searched and None came back.
C12_Witness ==
    /\ pc = "done"
    /\ ~HasDigit(response)
    /\ \E i \in 1..(Len(response) - 1) :
          /\ Lower(response[i]) \in LabelWords
          /\ response[i + 1] \in LabelSeparators
    /\ matched = None

----------------------------------------------------------------------------
(* Claims about empty responses.                                           *)

\* The text is empty or holds white space only.
IsBlank(t) == \A i \in 1..Len(t) : t[i] \in Spaces

\* The response has a text, and the text is blank.
BlankResponse(value) ==
    /\ ResponseText(value) # None
    /\ IsBlank(ResponseText(value))

\* C13: when the responses are None, strings or dicts, evaluate_responses
\* does not raise, and every model whose response text is empty or white
\* space only has a record with is_correct false, no matched answer, no
\* steps, no step types and completeness false.
C13_BlankResponseRecord ==
    (pc = "done" /\ WellTyped(responses)) =>
        /\ ~raised
        /\ \A k \in 1..Len(responses) :
              BlankResponse(responses[k][2]) =>
                  /\ responses[k][1] \in DOMAIN results.model_evaluations
                  /\ LET rec == results.model_evaluations[responses[k][1]]
                     IN  /\ rec.response = ResponseText(responses[k][2])
                         /\ rec.correctness.is_correct = FALSE
                         /\ rec.correctness.matched_answer = None
                         /\ rec.step_analysis.step_count = 0
                         /\ DOMAIN rec.step_analysis.step_types = {}
                         /\ rec.step_analysis.completeness = FALSE

\* C13's case: an empty response and a response of newlines only have each
\* been evaluated, for a problem with and without a correct answer.
C13_Witness ==
    /\ pc = "done"
    /\ ~raised
    /\ \E k \in 1..Len(responses) :
          /\ BlankResponse(responses[k][2])
          /\ results.model_evaluations[responses[k][1]].response
                 \in {<<>>, <<"\n", "\n">>}
          /\ (results.model_evaluations[responses[k][1]].response = <<>>
                 <=> results.correct_answer = <<>>)

----------------------------------------------------------------------------
(* Claims about _check_step_completeness.                                  *)

\* The six step types a complete solution shows.
ExpectedTypes ==
    {"explanation", "substitution", "calculation",
     "simplification", "verification", "conclusion"}

\* The expected step types that occur in the sequence.
TypesPresent(seq) == {ty \in ExpectedTypes : InList(ty, seq)}

C15_FractionalCompleteness ==
    pc = "done" =>
        /\ completeness \notin BOOLEAN
        /\ completeness = Divide(Cardinality(TypesPresent(sequence)),
                                 Cardinality(ExpectedTypes))

----------------------------------------------------------------------------
(* Claims about utils.result_analyzer.ResultAnalyzer.                      *)

\* The problems of the results that hold a record of the model.
ProblemsWith(items, m) ==
    {k \in 1..Len(items) :
        \E j \in 1..Len(items[k][2].model_evaluations) :
            items[k][2].model_evaluations[j][1] = m}

\* The record of the model in problem k of the results.
RecordOf(items, k, m) == ItemsGet(items[k][2].model_evaluations, m, EmptyDict)

\* The sum of the step counts of the model's records in the problems S.
RECURSIVE StepSum(_, _, _)
StepSum(items, S, m) ==
    IF S = {} THEN 0
    ELSE LET k == CHOOSE x \in S : TRUE
         IN  RecordOf(items, k, m).step_analysis.step_count
             + StepSum(items, S \ {k}, m)

\* C16: for each model the analyzer reports on, _analyze_model_performance
\* gives total = the number of the model's records, correct = the number of
\* them with is_correct true, accuracy = correct / total and avg_steps =
\* the sum of their step counts / total, and accuracy and avg_steps are 0
\* when the model has no record.
C16_ModelPerformanceArithmetic ==
    pc = "done" =>
        \A m \in analyzer_models :
            LET perf == AnalyzeModelPerformance(analyzed)[m]
                recs == ProblemsWith(analyzed, m)
                right == {k \in recs :
                             RecordOf(analyzed, k, m).correctness.is_correct}
            IN  /\ perf.total = Cardinality(recs)
                /\ perf.correct = Cardinality(right)
                /\ perf.accuracy.den > 0
                /\ perf.avg_steps.den > 0
                /\ perf.accuracy.num * perf.total
                       = perf.correct * perf.accuracy.den
                /\ perf.avg_steps.num * perf.total
                       = StepSum(analyzed, recs, m) * perf.avg_steps.den
                /\ perf.total = 0 =>
                       (perf.accuracy.num = 0 /\ perf.avg_steps.num = 0)
                /\ ~analyze_raised => analysis.model_performance[m] = perf

\* C16's case: analyze returned statistics in which one model has two
\* records, one of them correct, with steps, and another model has none.
C16_Witness ==
    /\ pc = "done"
    /\ ~analyze_raised
    /\ analysis.model_performance["chatgpt"].total = 2
    /\ analysis.model_performance["chatgpt"].accuracy = [num |-> 1, den |-> 2]
    /\ analysis.model_performance["chatgpt"].avg_steps.num > 0
    /\ analysis.model_performance["perplexity"].total = 0
    /\ analysis.model_performance["perplexity"].accuracy.num = 0

\* The sequence in reverse.
Reverse(seq) == [k \in 1..Len(seq) |-> seq[Len(seq) + 1 - k]]

\* The same results iterated in another order: the problems in reverse, the
\* models of every problem in reverse, or both.
ReverseProblems(items) == Reverse(items)

ReverseModels(items) ==
    [k \in 1..Len(items) |->
        <<items[k][1],
          [items[k][2] EXCEPT !.model_evaluations = Reverse(@)]>>]

Reorderings(items) ==
    { ReverseProblems(items), ReverseModels(items),
      ReverseModels(ReverseProblems(items)) }

\* C18: analyze gives the same analysis, the error_analysis lists included,
\* for the same results iterated in another order.
C18_AnalysisIgnoresIterationOrder ==
    pc = "done" =>
        \A other \in Reorderings(analyzed) : Analyze(other) = Analyze(analyzed)

\* The model names of the records of the results.
ModelsIn(items) ==
    {PairsFrom(items, 1)[k].model : k \in 1..Len(PairsFrom(items, 1))}

\* C19: analyze does not raise on well-formed records, whatever the model
\* names, and its statistics cover every model of the records.
C19_AnalyzeCoversEveryModel ==
    pc = "done" =>
        /\ ~analyze_raised
        /\ ModelsIn(analyzed) \subseteq DOMAIN analysis.model_performance
        /\ ModelsIn(analyzed) \subseteq DOMAIN analysis.overall_statistics.accuracy

----------------------------------------------------------------------------
(* Claims about evaluation.result_analyzer.ResultAnalyzer.                 *)

\* The keys of the dict calculate_metrics returns.
MetricKeys ==
    {"overall_accuracy", "category_accuracy", "step_completeness",
     "error_distribution", "response_times", "model_comparison"}

\* C17: on results without any problem calculate_metrics does not raise;
\* overall_accuracy is 0 and category_accuracy, step_completeness,
\* error_distribution, response_times and model_comparison are empty.
C17_EmptyResultsMetrics ==
    (pc = "done" /\ loaded = <<>>) =>
        /\ ~metrics_raised
        /\ DOMAIN metrics = MetricKeys
        /\ metrics.overall_accuracy.num = 0
        /\ \A key \in MetricKeys \ {"overall_accuracy"} : DOMAIN metrics[key] = {}

\* C17's case: calculate_metrics has returned for results without any
\* problem.
C17_Witness ==
    /\ pc = "done"
    /\ loaded = <<>>
    /\ ~metrics_raised
    /\ metrics.overall_accuracy = Zero

\* Every problem of the results holds a 'category' str.
EveryProblemHasCategory(items) ==
    \A k \in 1..Len(items) :
        ItemsGet(items[k][2], "category", Data(EmptyDict)).kind = "str"

\* C20: on results in which every problem holds a 'category' string next
\* to its model records, calculate_metrics does not raise and returns its
\* six metrics, and no metric counts the 'category' entry as a record:
\* overall_accuracy is taken over the model records only and no per-model
\* map has a 'category' key.
C20_CategoryShapeMetrics ==
    (pc = "done" /\ loaded # <<>> /\ EveryProblemHasCategory(loaded)) =>
        /\ ~metrics_raised
        /\ DOMAIN metrics = MetricKeys
        /\ metrics.overall_accuracy =
               Percent(CorrectIn(ModelEntries(loaded)),
                       Len(ModelEntries(loaded)))
        /\ \A key \in {"step_completeness", "error_distribution",
                       "response_times", "model_comparison"} :
               "category" \notin DOMAIN metrics[key]

----------------------------------------------------------------------------
(* Claims about the construction of the metrics analyzer.                  *)

\* C21: constructing the metrics analyzer on a results file whose content
\* is not valid JSON raises; no analyzer holding empty results comes out of
\* it.
C21_CorruptFileRaises ==
    (pc # "new" /\ file = CorruptFile) => (load_raised /\ pc = "failed")

----------------------------------------------------------------------------
(* Claims about the response times and the error distribution of           *)
(* calculate_metrics.                                                      *)

\* The largest number of a set.
Largest(S) == CHOOSE m \in S : \A n \in S : n <= m

\* a <= b for two quotients.
AtMost(a, b) == a.num * b.den <= b.num * a.den

\* The entries of a model that carry a response_time, in order.
TimedOf(entries, model) ==
    LET Timed(e) == "response_time" \in DOMAIN e.model_data.fields
    IN  SelectSeq(EntriesOf(entries, model), Timed)

\* C22: a record without a response_time adds nothing to the count, min,
\* max and average of its model's response times, while it is counted in
\* the model's accuracy; min <= average <= max over the records that carry
\* a time.
C22_UntimedRecordsLeftOut ==
    (pc = "done" /\ ~metrics_raised) =>
        LET entries == ModelEntries(loaded)
        IN  \A model \in NamesOf(entries) :
                LET timed == TimedOf(entries, model)
                    times == {TimeOf(timed[k]) : k \in 1..Len(timed)}
                    stat == metrics.response_times[model]
                IN  /\ metrics.model_comparison[model].total
                           = Len(EntriesOf(entries, model))
                    /\ stat.count = Len(timed)
                    /\ Len(timed) > 0 =>
                           /\ stat.min = Min(times)
                           /\ stat.max = Largest(times)
                           /\ stat.average = Divide(TotalTime(timed), Len(timed))
                           /\ AtMost(Divide(stat.min, 1), stat.average)
                           /\ AtMost(stat.average, Divide(stat.max, 1))

\* The bucket counts of a model summed over its error types.
BucketSum(buckets) ==
    LET types == DOMAIN buckets
        RECURSIVE Over(_)
        Over(S) == IF S = {} THEN 0
                   ELSE LET ty == CHOOSE t \in S : TRUE
                        IN  buckets[ty] + Over(S \ {ty})
    IN  Over(types)

\* C23: in the error distribution every incorrect record is counted in one
\* bucket of its model and no correct record is counted: the buckets of a
\* model sum to its number of incorrect records, and the incorrect records
\* whose error_type is missing or None are the ones of the "unknown"
\* bucket.
C23_ErrorBuckets ==
    (pc = "done" /\ ~metrics_raised) =>
        LET entries == ModelEntries(loaded)
        IN  \A model \in NamesOf(entries) :
                LET mine == EntriesOf(entries, model)
                    wrong == {k \in 1..Len(mine) : ~IsCorrect(mine[k])}
                    untyped == {k \in wrong :
                                   Get(mine[k].model_data.fields,
                                       "error_type", "None") = "None"}
                    buckets == IF model \in DOMAIN metrics.error_distribution
                               THEN metrics.error_distribution[model]
                               ELSE EmptyDict
                IN  /\ BucketSum(buckets) = Cardinality(wrong)
                    /\ \A ty \in DOMAIN buckets : buckets[ty] >= 1
                    /\ Get(buckets, "unknown", 0) = Cardinality(untyped)

----------------------------------------------------------------------------
(* Claims about the category performance of analyze.                       *)

\* The problems of the results in which the model has a correct record.
CorrectProblems(items, m) ==
    {k \in ProblemsWith(items, m) : RecordOf(items, k, m).correctness.is_correct}

\* The category a record is to be counted under: its predicted_category, or
\* "unknown" when that is None or empty.
FiledUnder(record) ==
    IF record.predicted_category = NoCategory \/ record.predicted_category = ""
    THEN "unknown" ELSE record.predicted_category

\* The counts of a model summed over the categories S.
RECURSIVE CategorySum(_, _, _)
CategorySum(performance, S, m) ==
    IF S = {} THEN 0
    ELSE LET cat == CHOOSE c \in S : TRUE
         IN  performance[cat][m] + CategorySum(performance, S \ {cat}, m)

\* C24: in the category performance every correct record of a model is
\* counted once, under its predicted_category or under "unknown" when that
\* is missing, None or empty, and no incorrect record is counted: for each
\* model the counts over all categories sum to its number of correct
\* records.
C24_CategoryCounts ==
    (pc = "done" /\ ~analyze_raised) =>
        LET performance == analysis.category_performance
        IN  \A m \in analyzer_models :
                LET right == CorrectProblems(analyzed, m)
                IN  /\ \A k \in right :
                           FiledUnder(RecordOf(analyzed, k, m)) \in DOMAIN performance
                    /\ \A cat \in DOMAIN performance :
                           performance[cat][m] =
                               Cardinality({k \in right :
                                   FiledUnder(RecordOf(analyzed, k, m)) = cat})
                    /\ CategorySum(performance, DOMAIN performance, m)
                           = Cardinality(right)

\* C24's case: a correct record under its predicted category, a correct
\* record without a category under "unknown", and an incorrect record that
\* is counted nowhere.
C24_Witness ==
    /\ pc = "done"
    /\ ~analyze_raised
    /\ DOMAIN analysis.category_performance = {"algebra", "unknown"}
    /\ \E m \in analyzer_models :
           \E k \in ProblemsWith(analyzed, m) : k \notin CorrectProblems(analyzed, m)

----------------------------------------------------------------------------
(* Claims about what the evaluation leaves in its inputs.                  *)

\* C26: evaluate_responses leaves its inputs unchanged: after a call,
\* returning or raising, the problem dict and the responses mapping, with
\* every dict-shaped response in it, hold the keys and values they held
\* before the call.
C26_EvaluateResponsesLeavesInputs ==
    [][pc = "start" => (problem' = problem /\ responses' = responses)]_vars

\* C26's case: a call has raised after its loop met a dict-shaped response,
\* on a problem without model_categories.
C26_Witness ==
    /\ pc = "done"
    /\ raised
    /\ \E k \in 1..Len(responses) : responses[k][2].kind = "dict"
    /\ "model_categories" \notin DOMAIN problem

\* C27: a problem is immutable once loaded: evaluate_problems never changes
\* a problem dict of the list it was handed, so that every problem has at
\* its return the fields and values it was passed in with.
C27_ProblemsUnchanged == [][problems' = problems]_vars

----------------------------------------------------------------------------
(* Claims about the analysis of a step list.                               *)

\* The number of lines of the text that are not blank.
NonBlankLines(t) ==
    Cardinality({n \in 1..Len(StrippedLines(t)) : StrippedLines(t)[n] # <<>>})

\* The counts of a step_types dict summed over the types S.
RECURSIVE TypeSum(_, _)
TypeSum(step_types, S) ==
    IF S = {} THEN 0
    ELSE LET ty == CHOOSE x \in S : TRUE
         IN  step_types[ty] + TypeSum(step_types, S \ {ty})

\* C30: for the step list _extract_steps builds from a response, the
\* analysis of _analyze_steps has step_count equal to the number of steps
\* and to the sum of the counts of step_types, every type of step_types
\* with a count of at least 1, step_count at most the number of non-blank
\* lines of the response, and completeness true only when step_types holds
\* all six expected types, hence only when step_count is at least 6.
C30_StepAnalysisInvariants ==
    pc = "analyzed" =>
        /\ steps_analysis.step_count = Len(steps)
        /\ steps_analysis.step_count
               = TypeSum(steps_analysis.step_types, DOMAIN steps_analysis.step_types)
        /\ \A ty \in DOMAIN steps_analysis.step_types :
               steps_analysis.step_types[ty] >= 1
        /\ steps_analysis.step_count <= NonBlankLines(response)
        /\ steps_analysis.completeness =>
               /\ ExpectedTypes \subseteq DOMAIN steps_analysis.step_types
               /\ steps_analysis.step_count >= 6

\* C30's case: a complete analysis of a response with a blank line inside
\* it and a non-blank line that is no step.
C30_Witness ==
    /\ pc = "analyzed"
    /\ steps_analysis.completeness
    /\ steps_analysis.step_count < NonBlankLines(response)
    /\ NonBlankLines(response) < Len(StrippedLines(response)) - 1

----------------------------------------------------------------------------
(* Claims about the data loader.                                           *)

\* The path ends in '.csv' or in '.json'.
SupportedFormat(path) == path[Len(path)] \in {".csv", ".json"}

\* C28: while no load_data call has succeeded, self.data is None and
\* preprocess_data, get_problem and get_all_problems raise ValueError; a
\* load_data on a path that ends in neither .csv nor .json raises
\* ValueError and leaves the loader not loaded.
C28_NotLoadedLoaderRaises ==
    /\ ~load_succeeded =>
           /\ data = NoneValue
           /\ last_call.call \in {"preprocess_data", "get_problem", "get_all_problems"}
                  => last_call.end.raised = "ValueError"
    /\ (last_call.call = "load_data" /\ ~SupportedFormat(data_path)) =>
           /\ last_call.end.raised = "ValueError"
           /\ data = NoneValue
           /\ ~load_succeeded

\* C28's case: load_data has raised ValueError on a file that holds a table
\* under a path ending in '.CSV'.
C28_Witness ==
    /\ last_call.call = "load_data"
    /\ data_path = <<"sample", ".CSV">>
    /\ disk.kind = "table"
    /\ last_call.end.raised = "ValueError"

----------------------------------------------------------------------------
(* Claims about the comparison report.                                     *)

\* The models of problem k of the results, and those of them with a correct
\* record.
ComparedModels(items, k) ==
    {items[k][2].model_evaluations[j][1] :
        j \in 1..Len(items[k][2].model_evaluations)}
RightModels(items, k) ==
    {m \in ComparedModels(items, k) : RecordOf(items, k, m).correctness.is_correct}

\* The report parts the models of every problem of the results into the
\* correct and the incorrect ones, and a problem without a correct model is
\* in the report with that fact recorded.
ReportPartitions ==
    \A k \in 1..Len(analyzed) :
        /\ analyzed[k][1] \in DOMAIN comparison_report
        /\ LET entry == comparison_report[analyzed[k][1]]
           IN  /\ entry.correct_models = RightModels(analyzed, k)
               /\ entry.incorrect_models
                      = ComparedModels(analyzed, k) \ RightModels(analyzed, k)
               /\ entry.no_correct_model = (RightModels(analyzed, k) = {})
               /\ RightModels(analyzed, k) # {} =>
                      DOMAIN entry.divergences = entry.incorrect_models

\* The divergence entry names a step-type difference.
NamesDifference(divergence) ==
    \/ divergence.first_divergence > 0
    \/ divergence.only_in_correct # {}
    \/ divergence.only_in_incorrect # {}

----------------------------------------------------------------------------
(* Claims about main().                                                    *)

\* save_analysis has been called after the comparison report was written.
AnalysisSaved ==
    /\ "comparison_report.json" \in DOMAIN written
    /\ "final_analysis.json" \in DOMAIN written

====
